---- MODULE Spec2Model ----
(***************************************************************************)
(* Model of the stock screener's scoring core                              *)
(* (backend/src/utils/scoring.ts, class StockScorer).                      *)
(*                                                                         *)
(* Numbers.  Every JavaScript number x of the program is represented by    *)
(* the integer 1000 * x (fixed point, three decimals).  All constants of   *)
(* the scorer and all inputs the model draws are multiples of 1/1000, and  *)
(* every product and quotient the scorer forms from them is again one, so  *)
(* the representation is exact.  K(n) is the integer literal n, decimal    *)
(* literals are written out (1.5 is 1500).                                 *)
(*                                                                         *)
(* Optional values.  A `number | null` field and the optional parameter    *)
(* `technicals` are sequences of length at most one: <<>> is null or       *)
(* undefined, <<v>> is the value v.                                        *)
(*                                                                         *)
(* Signals carry type, indicator and strength; the message text, which     *)
(* nothing reads, is left out.                                             *)
(***************************************************************************)
EXTENDS Integers, Sequences, FiniteSets, TLC

VARIABLES mode, pc, snapshot, technicals, scores, signals, recommendation,
          prices, highs, lows, volumes, returned

scorerVars == <<mode, pc, snapshot, technicals, scores, signals, recommendation>>

analyzerVars == <<prices, highs, lows, volumes, returned>>

\* Variables of the behaviours that exercise the other components.
VARIABLES instances, inputs, seen, now, lastRequestTime, callers,
          memoryCache, files, cacheLog, batchCall, scriptRun

purityVars == <<instances, inputs, seen>>

clientVars == <<now, lastRequestTime, callers>>

cacheVars == <<memoryCache, files, cacheLog>>

\* One call of batchFetch and one run of the fetchAllStocks script, each with
\* its locals.
runVars == <<batchCall, scriptRun>>

restVars == <<purityVars, clientVars, cacheVars, runVars>>

vars == <<scorerVars, analyzerVars, restVars>>

NoPurity ==
    /\ instances = <<>>
    /\ inputs = <<>>
    /\ seen = <<>>

NoClient ==
    /\ now = 0
    /\ lastRequestTime = 0
    /\ callers = <<>>

NoCache ==
    /\ memoryCache = <<>>
    /\ files = <<>>
    /\ cacheLog = <<>>

\* None of the other components is in use.
NoRuns ==
    /\ batchCall = <<>>
    /\ scriptRun = <<>>

RestIdle == NoPurity /\ NoClient /\ NoCache /\ NoRuns

(***************************************************************************)
(* Arithmetic of the fixed-point representation                            *)
(***************************************************************************)
K(n) == n * 1000

Mul(a, b) == (a * b) \div 1000

Div(a, b) == (a * 1000) \div b

MathRound(x) == ((x + 500) \div 1000) * 1000

MathMax(a, b) == IF a >= b THEN a ELSE b

MathMin(a, b) == IF a <= b THEN a ELSE b

MathAbs(x) == IF x < 0 THEN 0 - x ELSE x

Null == <<>>

Some(v) == <<v>>

NotNull(x) == x # Null

Val(x) == x[1]

(***************************************************************************)
(* StockScorer.getValuationScore                                           *)
(***************************************************************************)
\* Faulty variant: the presence check is dropped, and null compares like 0.
PEAdjust_NullAsZero(pe) ==
    LET v == IF NotNull(pe) THEN Val(pe) ELSE 0
    IN  IF v < 0 THEN 0 - K(10)
        ELSE IF v < K(10) THEN K(15)
        ELSE IF v < K(15) THEN K(10)
        ELSE IF v < K(20) THEN K(5)
        ELSE IF v < K(30) THEN 0 - K(5)
        ELSE 0 - K(10)

\* Faulty variant: the band limits are inclusive (<= for <).
PEAdjust_InclusiveBands(pe) ==
    IF ~NotNull(pe) THEN 0
    ELSE IF Val(pe) < 0 THEN 0 - K(10)
    ELSE IF Val(pe) <= K(10) THEN K(15)
    ELSE IF Val(pe) <= K(15) THEN K(10)
    ELSE IF Val(pe) <= K(20) THEN K(5)
    ELSE IF Val(pe) <= K(30) THEN 0 - K(5)
    ELSE 0 - K(10)

PEAdjust(pe) ==
    IF ~NotNull(pe) THEN 0
    ELSE IF Val(pe) < 0 THEN 0 - K(10)
    ELSE IF Val(pe) < K(10) THEN K(15)
    ELSE IF Val(pe) < K(15) THEN K(10)
    ELSE IF Val(pe) < K(20) THEN K(5)
    ELSE IF Val(pe) < K(30) THEN 0 - K(5)
    ELSE 0 - K(10)

PEGAdjust(peg) ==
    IF ~NotNull(peg) THEN 0
    ELSE IF Val(peg) < 0 THEN 0 - K(5)
    ELSE IF Val(peg) < K(1) THEN K(15)
    ELSE IF Val(peg) < 1500 THEN K(10)
    ELSE IF Val(peg) < K(2) THEN K(5)
    ELSE IF Val(peg) > K(3) THEN 0 - K(10)
    ELSE 0

FCFAdjust(fcf_yield) ==
    IF ~NotNull(fcf_yield) THEN 0
    ELSE LET fcfYieldPct == Mul(Val(fcf_yield), K(100))
         IN  IF fcfYieldPct > K(10) THEN K(15)
             ELSE IF fcfYieldPct > K(5) THEN K(10)
             ELSE IF fcfYieldPct > K(3) THEN K(5)
             ELSE IF fcfYieldPct < 0 THEN 0 - K(10)
             ELSE 0

getValuationScore(s) ==
    LET score == K(50) + PEAdjust(s.pe) + PEGAdjust(s.peg) + FCFAdjust(s.fcf_yield)
    IN  MathMax(0, MathMin(K(100), score))

(***************************************************************************)
(* StockScorer.getQualityScore                                             *)
(***************************************************************************)
ROEAdjust(roe) ==
    IF ~NotNull(roe) THEN 0
    ELSE LET roePct == Mul(Val(roe), K(100))
         IN  IF roePct > K(25) THEN K(15)
             ELSE IF roePct > K(15) THEN K(10)
             ELSE IF roePct > K(10) THEN K(5)
             ELSE IF roePct < 0 THEN 0 - K(15)
             ELSE IF roePct < K(5) THEN 0 - K(5)
             ELSE 0

OperatingMarginAdjust(operating_margin) ==
    IF ~NotNull(operating_margin) THEN 0
    ELSE LET margin == Mul(Val(operating_margin), K(100))
         IN  IF margin > K(25) THEN K(10)
             ELSE IF margin > K(15) THEN K(5)
             ELSE IF margin < 0 THEN 0 - K(10)
             ELSE IF margin < K(5) THEN 0 - K(5)
             ELSE 0

GrossMarginAdjust(gross_margin) ==
    IF ~NotNull(gross_margin) THEN 0
    ELSE LET margin == Mul(Val(gross_margin), K(100))
         IN  IF margin > K(50) THEN K(10)
             ELSE IF margin > K(30) THEN K(5)
             ELSE IF margin < K(20) THEN 0 - K(5)
             ELSE 0

DebtToEquityAdjust(debt_to_equity) ==
    IF ~NotNull(debt_to_equity) THEN 0
    ELSE IF Val(debt_to_equity) < 300 THEN K(15)
    ELSE IF Val(debt_to_equity) < 500 THEN K(10)
    ELSE IF Val(debt_to_equity) < K(1) THEN K(5)
    ELSE IF Val(debt_to_equity) > K(2) THEN 0 - K(10)
    ELSE IF Val(debt_to_equity) > 1500 THEN 0 - K(5)
    ELSE 0

CurrentRatioAdjust(current_ratio) ==
    IF ~NotNull(current_ratio) THEN 0
    ELSE IF Val(current_ratio) >= K(2) THEN K(10)
    ELSE IF Val(current_ratio) >= 1500 THEN K(5)
    ELSE IF Val(current_ratio) < K(1) THEN 0 - K(10)
    ELSE IF Val(current_ratio) < 1200 THEN 0 - K(5)
    ELSE 0

\* Faulty variant: the accumulated score is returned without the clamp.
getQualityScore_Unclamped(s) ==
    K(50) + ROEAdjust(s.roe)
          + OperatingMarginAdjust(s.operating_margin)
          + GrossMarginAdjust(s.gross_margin)
          + DebtToEquityAdjust(s.debt_to_equity)
          + CurrentRatioAdjust(s.current_ratio)

getQualityScore(s) ==
    LET score == K(50) + ROEAdjust(s.roe)
                       + OperatingMarginAdjust(s.operating_margin)
                       + GrossMarginAdjust(s.gross_margin)
                       + DebtToEquityAdjust(s.debt_to_equity)
                       + CurrentRatioAdjust(s.current_ratio)
    IN  MathMax(0, MathMin(K(100), score))

(***************************************************************************)
(* StockScorer.getGrowthScore                                              *)
(***************************************************************************)
RevenueCagrAdjust(revenue_cagr_5y) ==
    IF ~NotNull(revenue_cagr_5y) THEN 0
    ELSE LET cagr == Mul(Val(revenue_cagr_5y), K(100))
         IN  IF cagr > K(20) THEN K(20)
             ELSE IF cagr > K(15) THEN K(15)
             ELSE IF cagr > K(10) THEN K(10)
             ELSE IF cagr > K(5) THEN K(5)
             ELSE IF cagr < 0 THEN 0 - K(15)
             ELSE IF cagr < K(5) THEN 0 - K(5)
             ELSE 0

EpsCagrAdjust(eps_cagr_5y) ==
    IF ~NotNull(eps_cagr_5y) THEN 0
    ELSE LET cagr == Mul(Val(eps_cagr_5y), K(100))
         IN  IF cagr > K(20) THEN K(20)
             ELSE IF cagr > K(15) THEN K(15)
             ELSE IF cagr > K(10) THEN K(10)
             ELSE IF cagr > K(5) THEN K(5)
             ELSE IF cagr < 0 THEN 0 - K(15)
             ELSE 0

\* Faulty variant: only the revenue branch sets hasData.
getGrowthScore_RevenueOnlyHasData(s) ==
    LET score   == K(50) + RevenueCagrAdjust(s.revenue_cagr_5y)
                         + EpsCagrAdjust(s.eps_cagr_5y)
        hasData == NotNull(s.revenue_cagr_5y)
    IN  IF ~hasData THEN K(50)
        ELSE MathMax(0, MathMin(K(100), score))

getGrowthScore(s) ==
    LET score   == K(50) + RevenueCagrAdjust(s.revenue_cagr_5y)
                         + EpsCagrAdjust(s.eps_cagr_5y)
        hasData == NotNull(s.revenue_cagr_5y) \/ NotNull(s.eps_cagr_5y)
    IN  IF ~hasData THEN K(50)
        ELSE MathMax(0, MathMin(K(100), score))

(***************************************************************************)
(* StockScorer.getMomentumScore                                            *)
(***************************************************************************)
RsiAdjust(rsi_14) ==
    IF ~NotNull(rsi_14) THEN 0
    ELSE IF Val(rsi_14) >= K(40) /\ Val(rsi_14) <= K(60) THEN K(10)
    ELSE IF Val(rsi_14) >= K(30) /\ Val(rsi_14) <= K(70) THEN K(5)
    ELSE IF Val(rsi_14) < K(30) THEN K(5)
    ELSE IF Val(rsi_14) > K(70) THEN 0 - K(5)
    ELSE 0

MacdAdjust(macd_histogram) ==
    IF ~NotNull(macd_histogram) THEN 0
    ELSE IF Val(macd_histogram) > 0 THEN K(10)
    ELSE 0 - K(5)

PriceChangeAdjust(price_change_20d) ==
    IF ~NotNull(price_change_20d) THEN 0
    ELSE IF Val(price_change_20d) > K(5) THEN K(5)
    ELSE IF Val(price_change_20d) < 0 - K(5) THEN 0 - K(5)
    ELSE 0

VolumeRatioAdjust(volume_ratio) ==
    IF ~NotNull(volume_ratio) THEN 0
    ELSE IF Val(volume_ratio) > 1500 THEN K(5)
    ELSE 0

getMomentumScore(t) ==
    LET score == K(50) + RsiAdjust(t.rsi_14)
                       + MacdAdjust(t.macd_histogram)
                       + PriceChangeAdjust(t.price_change_20d)
                       + VolumeRatioAdjust(t.volume_ratio)
    IN  MathMax(0, MathMin(K(100), score))

(***************************************************************************)
(* StockScorer.calculateScores                                             *)
(***************************************************************************)
\* Faulty variant: the overall score is truncated (Math.floor for Math.round).
calculateScores_OverallFloored(s, tech) ==
    LET valuation == getValuationScore(s)
        quality   == getQualityScore(s)
        growth    == getGrowthScore(s)
        momentum  == IF NotNull(tech) THEN getMomentumScore(Val(tech)) ELSE K(50)
        overall   == Mul(valuation, 250) + Mul(quality, 300)
                     + Mul(growth, 250) + Mul(momentum, 200)
    IN  [valuation |-> MathRound(valuation),
         quality   |-> MathRound(quality),
         growth    |-> MathRound(growth),
         momentum  |-> MathRound(momentum),
         overall   |-> (overall \div 1000) * 1000]

\* Faulty variant: without an indicator set the momentum score is 0.
calculateScores_MomentumZeroDefault(s, tech) ==
    LET valuation == getValuationScore(s)
        quality   == getQualityScore(s)
        growth    == getGrowthScore(s)
        momentum  == IF NotNull(tech) THEN getMomentumScore(Val(tech)) ELSE 0
        overall   == Mul(valuation, 250) + Mul(quality, 300)
                     + Mul(growth, 250) + Mul(momentum, 200)
    IN  [valuation |-> MathRound(valuation),
         quality   |-> MathRound(quality),
         growth    |-> MathRound(growth),
         momentum  |-> MathRound(momentum),
         overall   |-> MathRound(overall)]

calculateScores(s, tech) ==
    LET valuation == getValuationScore(s)
        quality   == getQualityScore(s)
        growth    == getGrowthScore(s)
        momentum  == IF NotNull(tech) THEN getMomentumScore(Val(tech)) ELSE K(50)
        overall   == Mul(valuation, 250) + Mul(quality, 300)
                     + Mul(growth, 250) + Mul(momentum, 200)
    IN  [valuation |-> MathRound(valuation),
         quality   |-> MathRound(quality),
         growth    |-> MathRound(growth),
         momentum  |-> MathRound(momentum),
         overall   |-> MathRound(overall)]

(***************************************************************************)
(* StockScorer.generateSignals: one rule after the other, each pushing at  *)
(* most one signal onto the list.                                          *)
(***************************************************************************)
Signal(type, indicator, strength) ==
    [type |-> type, indicator |-> indicator, strength |-> strength]

TechField(tech, f) == IF NotNull(tech) THEN Val(tech)[f] ELSE Null

\* Faulty variant: the RSI limits are inclusive (<= 30, >= 70, <= 20, >= 80).
RsiSignals_InclusiveLimits(tech) ==
    LET rsi_14 == TechField(tech, "rsi_14")
    IN  IF ~NotNull(rsi_14) THEN <<>>
        ELSE IF Val(rsi_14) <= K(30)
             THEN <<Signal("bullish", "RSI", IF Val(rsi_14) <= K(20) THEN 3 ELSE 2)>>
        ELSE IF Val(rsi_14) >= K(70)
             THEN <<Signal("bearish", "RSI", IF Val(rsi_14) >= K(80) THEN 3 ELSE 2)>>
        ELSE <<>>

RsiSignals(tech) ==
    LET rsi_14 == TechField(tech, "rsi_14")
    IN  IF ~NotNull(rsi_14) THEN <<>>
        ELSE IF Val(rsi_14) < K(30)
             THEN <<Signal("bullish", "RSI", IF Val(rsi_14) < K(20) THEN 3 ELSE 2)>>
        ELSE IF Val(rsi_14) > K(70)
             THEN <<Signal("bearish", "RSI", IF Val(rsi_14) > K(80) THEN 3 ELSE 2)>>
        ELSE <<>>

\* Faulty variant: a histogram of exactly 0 counts as bullish (>= for >).
MacdSignals_ZeroBullish(tech) ==
    LET macd_histogram == TechField(tech, "macd_histogram")
    IN  IF ~NotNull(macd_histogram) THEN <<>>
        ELSE IF Val(macd_histogram) >= 0
             THEN <<Signal("bullish", "MACD", 2)>>
        ELSE <<Signal("bearish", "MACD", 2)>>

MacdSignals(tech) ==
    LET macd_histogram == TechField(tech, "macd_histogram")
    IN  IF ~NotNull(macd_histogram) THEN <<>>
        ELSE IF Val(macd_histogram) > 0
             THEN <<Signal("bullish", "MACD", 2)>>
        ELSE <<Signal("bearish", "MACD", 2)>>

ValuationSignals(s) ==
    IF NotNull(s.pe) /\ Val(s.pe) > 0 /\ Val(s.pe) < K(15)
    THEN <<Signal("bullish", "Valuation", IF Val(s.pe) < K(10) THEN 3 ELSE 2)>>
    ELSE <<>>

QualitySignals(s) ==
    IF NotNull(s.roe) /\ Val(s.roe) > 200
    THEN <<Signal("bullish", "Quality", IF Val(s.roe) > 300 THEN 3 ELSE 2)>>
    ELSE <<>>

\* Faulty variant: the presence check is dropped, and null compares like 0.
DebtSignals_NullAsZero(s) ==
    LET v == IF NotNull(s.debt_to_equity) THEN Val(s.debt_to_equity) ELSE 0
    IN  IF v < 300
        THEN <<Signal("bullish", "Balance Sheet", 2)>>
        ELSE IF v > K(2)
             THEN <<Signal("bearish", "Balance Sheet", IF v > K(3) THEN 3 ELSE 2)>>
        ELSE <<>>

DebtSignals(s) ==
    IF ~NotNull(s.debt_to_equity) THEN <<>>
    ELSE IF Val(s.debt_to_equity) < 300
         THEN <<Signal("bullish", "Balance Sheet", 2)>>
    ELSE IF Val(s.debt_to_equity) > K(2)
         THEN <<Signal("bearish", "Balance Sheet",
                       IF Val(s.debt_to_equity) > K(3) THEN 3 ELSE 2)>>
    ELSE <<>>

\* Faulty variant: the thresholds are taken in percent (15, 25), the metric
\* being a fraction.
GrowthSignals_PercentThresholds(s) ==
    IF NotNull(s.revenue_cagr_5y) /\ Val(s.revenue_cagr_5y) > K(15)
    THEN <<Signal("bullish", "Growth",
                  IF Val(s.revenue_cagr_5y) > K(25) THEN 3 ELSE 2)>>
    ELSE <<>>

GrowthSignals(s) ==
    IF NotNull(s.revenue_cagr_5y) /\ Val(s.revenue_cagr_5y) > 150
    THEN <<Signal("bullish", "Growth",
                  IF Val(s.revenue_cagr_5y) > 250 THEN 3 ELSE 2)>>
    ELSE <<>>

MomentumSignals(tech) ==
    LET price_change_20d == TechField(tech, "price_change_20d")
    IN  IF ~NotNull(price_change_20d) THEN <<>>
        ELSE IF Val(price_change_20d) > K(10)
             THEN <<Signal("bullish", "Momentum", 2)>>
        ELSE IF Val(price_change_20d) < 0 - K(10)
             THEN <<Signal("bearish", "Momentum", 2)>>
        ELSE <<>>

\* Faulty variant: the price-change rule runs with the other indicator rules.
generateSignals_MomentumWithTechnicals(s, tech) ==
    RsiSignals(tech) \o MacdSignals(tech) \o MomentumSignals(tech)
        \o ValuationSignals(s) \o QualitySignals(s) \o DebtSignals(s)
        \o GrowthSignals(s)

generateSignals(s, tech) ==
    RsiSignals(tech) \o MacdSignals(tech) \o ValuationSignals(s)
        \o QualitySignals(s) \o DebtSignals(s) \o GrowthSignals(s)
        \o MomentumSignals(tech)

(***************************************************************************)
(* StockScorer.getRecommendation                                           *)
(***************************************************************************)
CountType(sigs, type) == Len(SelectSeq(sigs, LAMBDA x : x.type = type))

SignalScore(sigs) == K(CountType(sigs, "bullish")) - K(CountType(sigs, "bearish"))

\* Faulty variant: the Buy branch needs overall > 60 and a positive signal score.
Rating_StrictBuy(overall, signalScore) ==
    IF overall >= K(70) /\ signalScore >= K(2) THEN
        [rating |-> "Strong Buy",
         summary |-> "Excellent fundamentals with bullish technical signals"]
    ELSE IF overall > K(60) /\ signalScore > 0 THEN
        [rating |-> "Buy",
         summary |-> "Good fundamentals, favorable technical setup"]
    ELSE IF overall >= K(40) /\ overall < K(60) THEN
        [rating |-> "Hold", summary |-> "Mixed signals, monitor for changes"]
    ELSE IF overall < K(40) /\ signalScore <= 0 THEN
        [rating |-> "Sell", summary |-> "Weak fundamentals with bearish signals"]
    ELSE IF overall < K(30) /\ signalScore < 0 - K(1) THEN
        [rating |-> "Strong Sell",
         summary |-> "Poor fundamentals and bearish momentum"]
    ELSE
        [rating |-> "Hold", summary |-> "Neutral outlook"]

\* Faulty variant: the Strong Sell branch is tested before the Sell branch.
Rating_StrongSellFirst(overall, signalScore) ==
    IF overall >= K(70) /\ signalScore >= K(2) THEN
        [rating |-> "Strong Buy",
         summary |-> "Excellent fundamentals with bullish technical signals"]
    ELSE IF overall >= K(60) /\ signalScore >= 0 THEN
        [rating |-> "Buy",
         summary |-> "Good fundamentals, favorable technical setup"]
    ELSE IF overall >= K(40) /\ overall < K(60) THEN
        [rating |-> "Hold", summary |-> "Mixed signals, monitor for changes"]
    ELSE IF overall < K(30) /\ signalScore < 0 - K(1) THEN
        [rating |-> "Strong Sell",
         summary |-> "Poor fundamentals and bearish momentum"]
    ELSE IF overall < K(40) /\ signalScore <= 0 THEN
        [rating |-> "Sell", summary |-> "Weak fundamentals with bearish signals"]
    ELSE
        [rating |-> "Hold", summary |-> "Neutral outlook"]

Rating(overall, signalScore) ==
    IF overall >= K(70) /\ signalScore >= K(2) THEN
        [rating |-> "Strong Buy",
         summary |-> "Excellent fundamentals with bullish technical signals"]
    ELSE IF overall >= K(60) /\ signalScore >= 0 THEN
        [rating |-> "Buy",
         summary |-> "Good fundamentals, favorable technical setup"]
    ELSE IF overall >= K(40) /\ overall < K(60) THEN
        [rating |-> "Hold", summary |-> "Mixed signals, monitor for changes"]
    ELSE IF overall < K(40) /\ signalScore <= 0 THEN
        [rating |-> "Sell", summary |-> "Weak fundamentals with bearish signals"]
    ELSE IF overall < K(30) /\ signalScore < 0 - K(1) THEN
        [rating |-> "Strong Sell",
         summary |-> "Poor fundamentals and bearish momentum"]
    ELSE
        [rating |-> "Hold", summary |-> "Neutral outlook"]

\* Faulty variant: the overall score is counted with the four categories.
DataPoints_CountingOverall(sc) ==
    K(Cardinality({c \in {"valuation", "quality", "growth", "momentum",
                          "overall"} : sc[c] # K(50)}))

DataPoints(sc) ==
    K(Cardinality({c \in {"valuation", "quality", "growth", "momentum"} :
                      sc[c] # K(50)}))

Confidence(sc, signalScore) ==
    MathMin(K(100),
            Mul(Div(DataPoints(sc), K(4)), K(50))
                + Mul(MathAbs(signalScore), K(10)) + K(30))

getRecommendation(sc, sigs) ==
    LET signalScore == SignalScore(sigs)
        r           == Rating(sc.overall, signalScore)
    IN  [rating     |-> r.rating,
         confidence |-> MathRound(Confidence(sc, signalScore)),
         summary    |-> r.summary]

(***************************************************************************)
(* Inputs.  Each metric ranges over null and over values on both sides of  *)
(* (and on) every threshold that some rule compares it with.               *)
(***************************************************************************)
MaxSignals == 3

Opt(S) == {Null} \cup {Some(v) : v \in S}

PEValues == Opt({0 - K(1), 0, K(5), K(8), K(10), K(15), K(20), K(30)})

PEGValues == Opt({0 - 500, 0, 800, K(1), 1500, K(2), K(3), 3500})

FCFYieldValues == Opt({0 - 10, 0, 30, 50, 100, 120})

ROEValues == Opt({0 - 50, 0, 50, 100, 150, 200, 250, 280, 300, 350})

OperatingMarginValues == Opt({0 - 50, 0, 50, 150, 250, 300})

GrossMarginValues == Opt({0, 200, 300, 500, 600})

DebtToEquityValues == Opt({0, 200, 300, 500, K(1), 1500, K(2), 2500, K(3), 3500})

CurrentRatioValues == Opt({0, K(1), 1200, 1500, K(2)})

RevenueCagrValues == Opt({0 - 50, 0, 50, 100, 150, 200, 220, 250, 300})

EpsCagrValues == Opt({0 - 50, 0, 50, 100, 150, 200, 250})

RsiValues == Opt({K(10), K(20), K(30), K(40), K(60), K(70), K(75), K(80), K(90)})

MacdHistogramValues == Opt({0 - 500, 0, 500})

PriceChangeValues ==
    Opt({0 - K(15), 0 - K(10), 0 - K(5), 0, K(5), K(10), K(15)})

VolumeRatioValues == Opt({K(1), 1500, K(2)})

EmptySnapshot ==
    [pe |-> Null, peg |-> Null, fcf_yield |-> Null, roe |-> Null,
     operating_margin |-> Null, gross_margin |-> Null,
     debt_to_equity |-> Null, current_ratio |-> Null,
     revenue_cagr_5y |-> Null, eps_cagr_5y |-> Null]

NoTechnicals == Null

\* Every combination of the three valuation metrics, the rest absent.
ValuationInputs ==
    {[EmptySnapshot EXCEPT !.pe = a, !.peg = b, !.fcf_yield = c] :
        a \in PEValues, b \in PEGValues, c \in FCFYieldValues}

\* Every combination of the five quality metrics, the rest absent.
QualityInputs ==
    {[EmptySnapshot EXCEPT !.roe = a, !.operating_margin = b,
                           !.gross_margin = c, !.debt_to_equity = d,
                           !.current_ratio = e] :
        a \in ROEValues, b \in OperatingMarginValues, c \in GrossMarginValues,
        d \in DebtToEquityValues, e \in CurrentRatioValues}

\* Every combination of the two growth metrics, the rest absent.
GrowthInputs ==
    {[EmptySnapshot EXCEPT !.revenue_cagr_5y = a, !.eps_cagr_5y = b] :
        a \in RevenueCagrValues, b \in EpsCagrValues}

\* Every metric absent or exactly zero.
ZeroInputs ==
    [{"pe", "peg", "fcf_yield", "roe", "operating_margin", "gross_margin",
      "debt_to_equity", "current_ratio", "revenue_cagr_5y", "eps_cagr_5y"}
        -> Opt({0})]

\* The metrics no signal rule reads: all absent, all at their worst, all at
\* their best.
OtherProfiles ==
    {[peg |-> Null, fcf_yield |-> Null, operating_margin |-> Null,
      gross_margin |-> Null, current_ratio |-> Null, eps_cagr_5y |-> Null],
     [peg |-> Some(3500), fcf_yield |-> Some(0 - 10),
      operating_margin |-> Some(0 - 50), gross_margin |-> Some(0),
      current_ratio |-> Some(0), eps_cagr_5y |-> Some(0 - 50)],
     [peg |-> Some(800), fcf_yield |-> Some(120),
      operating_margin |-> Some(300), gross_margin |-> Some(600),
      current_ratio |-> Some(K(2)), eps_cagr_5y |-> Some(250)]}

\* The metrics the signal rules read, each absent, poor or good, against
\* each profile of the others.
CrossInputs ==
    {[pe |-> a, roe |-> b, debt_to_equity |-> c, revenue_cagr_5y |-> d,
      peg |-> o.peg, fcf_yield |-> o.fcf_yield,
      operating_margin |-> o.operating_margin,
      gross_margin |-> o.gross_margin, current_ratio |-> o.current_ratio,
      eps_cagr_5y |-> o.eps_cagr_5y] :
        a \in Opt({K(8), K(30)}), b \in Opt({0 - 50, 280}),
        c \in Opt({200, 3500}), d \in Opt({0 - 50, 220}),
        o \in OtherProfiles}

\* An indicator set, every field independently null or a value.
TechInputs ==
    {Some([rsi_14 |-> a, macd_histogram |-> b, price_change_20d |-> c,
           volume_ratio |-> d]) :
        a \in RsiValues, b \in MacdHistogramValues, c \in PriceChangeValues,
        d \in VolumeRatioValues}

TechSamples ==
    {NoTechnicals,
     Some([rsi_14 |-> Null, macd_histogram |-> Null,
           price_change_20d |-> Null, volume_ratio |-> Null]),
     Some([rsi_14 |-> Some(K(10)), macd_histogram |-> Some(500),
           price_change_20d |-> Some(K(15)), volume_ratio |-> Some(K(2))]),
     Some([rsi_14 |-> Some(K(90)), macd_histogram |-> Some(0 - 500),
           price_change_20d |-> Some(0 - K(15)), volume_ratio |-> Some(K(1))]),
     Some([rsi_14 |-> Some(K(40)), macd_histogram |-> Some(500),
           price_change_20d |-> Some(K(10)), volume_ratio |-> Some(K(2))])}

\* The strong-fundamentals scenario: pe 8, peg 0.8, roe 0.28,
\* debt_to_equity 0.2, revenue_cagr_5y 0.22, every other metric absent.
ScenarioSnapshot ==
    [EmptySnapshot EXCEPT !.pe = Some(K(8)), !.peg = Some(800),
                          !.roe = Some(280), !.debt_to_equity = Some(200),
                          !.revenue_cagr_5y = Some(220)]

\* The (snapshot, technicals) pairs handed to the pipeline.
PipelineInputs ==
    ((ValuationInputs \cup QualityInputs \cup GrowthInputs \cup ZeroInputs)
        \X {NoTechnicals})
    \cup ({EmptySnapshot} \X TechInputs)
    \cup (CrossInputs \X TechSamples)
    \cup ({ScenarioSnapshot} \X {NoTechnicals})

\* Score breakdowns and signal lists handed to getRecommendation directly.
DirectOverall ==
    {K(n) : n \in {0, 15, 29, 30, 35, 39, 40, 50, 59, 60, 65, 69, 70, 85, 100}}

DirectCategory == {K(35), K(50), K(80)}

DirectScores ==
    [valuation : DirectCategory, quality : DirectCategory,
     growth : DirectCategory, momentum : DirectCategory,
     overall : DirectOverall]

DirectSignals ==
    UNION {[1..n -> {Signal(ty, "Custom", 1) :
                        ty \in {"bullish", "bearish", "neutral"}}] :
              n \in 0..MaxSignals}

NoScores == <<>>

NoRecommendation == <<>>

(***************************************************************************)
(* The callers.  The pipeline of the scripts calls calculateScores, then   *)
(* generateSignals, then getRecommendation on their results; a direct call *)
(* hands getRecommendation a score breakdown and a signal list of its own. *)
(***************************************************************************)
\* No TechnicalAnalyzer has been constructed.
NoAnalyzer ==
    /\ prices = <<>>
    /\ highs = <<>>
    /\ lows = <<>>
    /\ volumes = <<>>
    /\ returned = <<>>

Init ==
    /\ NoAnalyzer
    /\ RestIdle
    /\ recommendation = NoRecommendation
    /\ \/ /\ mode = "pipeline"
          /\ pc = "start"
          /\ \E input \in PipelineInputs :
                /\ snapshot = input[1]
                /\ technicals = input[2]
          /\ scores = NoScores
          /\ signals = <<>>
       \/ /\ mode = "direct"
          /\ pc = "signalled"
          /\ snapshot = EmptySnapshot
          /\ technicals = NoTechnicals
          /\ scores \in DirectScores
          /\ signals \in DirectSignals

CalculateScores ==
    /\ pc = "start"
    /\ scores' = calculateScores(snapshot, technicals)
    /\ pc' = "scored"
    /\ UNCHANGED <<mode, snapshot, technicals, signals, recommendation>>
    /\ UNCHANGED <<analyzerVars, restVars>>

GenerateSignals ==
    /\ pc = "scored"
    /\ signals' = generateSignals(snapshot, technicals)
    /\ pc' = "signalled"
    /\ UNCHANGED <<mode, snapshot, technicals, scores, recommendation>>
    /\ UNCHANGED <<analyzerVars, restVars>>

GetRecommendation ==
    /\ pc = "signalled"
    /\ recommendation' = getRecommendation(scores, signals)
    /\ pc' = "done"
    /\ UNCHANGED <<mode, snapshot, technicals, scores, signals>>
    /\ UNCHANGED <<analyzerVars, restVars>>

Next == CalculateScores \/ GenerateSignals \/ GetRecommendation

Spec == Init /\ [][Next]_vars

(***************************************************************************)
(* Properties                                                              *)
(***************************************************************************)
ScoresReady == mode = "pipeline" /\ pc \in {"scored", "signalled", "done"}

SignalsReady == mode = "pipeline" /\ pc \in {"signalled", "done"}

\* Signal counts, recounted position by position.
NumOfType(sigs, type) == Cardinality({i \in 1..Len(sigs) : sigs[i].type = type})

BullMinusBear(sigs) == NumOfType(sigs, "bullish") - NumOfType(sigs, "bearish")

\* The rating cascade as the specification lists it, on plain numbers.
CascadeRating(overall, signalScore) ==
    IF overall >= 70 /\ signalScore >= 2 THEN "Strong Buy"
    ELSE IF overall >= 60 /\ signalScore >= 0 THEN "Buy"
    ELSE IF 40 <= overall /\ overall < 60 THEN "Hold"
    ELSE IF overall < 40 /\ signalScore <= 0 THEN "Sell"
    ELSE IF overall < 30 /\ signalScore < 0 - 1 THEN "Strong Sell"
    ELSE "Hold"

\* C1: getRecommendation returns the rating of the first matching branch of
\* the ordered cascade, with signalScore = #bullish - #bearish (neutral
\* signals ignored); overall >= 60 with signalScore < 0, and overall < 40
\* with signalScore > 0, both end in the catch-all Hold.
C1_RatingIsFirstMatchingBranch ==
    pc = "done" =>
        LET ss == BullMinusBear(signals)
        IN  /\ scores.overall % 1000 = 0
            /\ recommendation.rating = CascadeRating(scores.overall \div 1000, ss)
            /\ (\/ scores.overall >= K(60) /\ ss < 0
                \/ scores.overall < K(40) /\ ss > 0)
                  => /\ recommendation.rating = "Hold"
                     /\ recommendation.summary = "Neutral outlook"

C1_Witness ==
    /\ pc = "done"
    /\ scores.overall >= K(60)
    /\ BullMinusBear(signals) < 0
    /\ NumOfType(signals, "neutral") > 0
    /\ recommendation.rating = "Hold"

\* C2: whatever satisfies branch 5 (overall < 30 and signalScore < -1) also
\* satisfies branch 4 and is rated Sell, so no score breakdown and signal
\* list is ever rated Strong Sell.
C2_StrongSellNeverReturned ==
    pc = "done" =>
        LET ss == BullMinusBear(signals)
        IN  /\ recommendation.rating # "Strong Sell"
            /\ (scores.overall < K(30) /\ ss < 0 - 1)
                  => /\ scores.overall < K(40) /\ ss <= 0
                     /\ recommendation.rating = "Sell"

C2_Witness ==
    /\ pc = "done"
    /\ scores.overall < K(30)
    /\ BullMinusBear(signals) < 0 - 1
    /\ recommendation.rating = "Sell"

Categories == {"valuation", "quality", "growth", "momentum"}

IsIntegerScore(x) == x % 1000 = 0 /\ x >= 0 /\ x <= K(100)

\* C3: for every fundamentals snapshot and optional indicator set,
\* calculateScores returns valuation, quality, growth, momentum and overall
\* that are all integers in [0,100].
C3_ScoresAreIntegersInRange ==
    ScoresReady =>
        \A c \in Categories \cup {"overall"} : IsIntegerScore(scores[c])

\* The quality adjustments add up to more than 100 and the result is 100.
C3_Witness ==
    /\ ScoresReady
    /\ K(50) + ROEAdjust(snapshot.roe)
             + OperatingMarginAdjust(snapshot.operating_margin)
             + GrossMarginAdjust(snapshot.gross_margin)
             + DebtToEquityAdjust(snapshot.debt_to_equity)
             + CurrentRatioAdjust(snapshot.current_ratio) > K(100)
    /\ scores.quality = K(100)

\* Hundredths of a point of the weighted sum of four plain category values.
WeightedHundredths(v, q, g, m) == 25 * v + 30 * q + 25 * g + 20 * m

\* C4: the overall score returned by calculateScores equals
\* round(valuation*0.25 + quality*0.30 + growth*0.25 + momentum*0.20)
\* recomputed from the four category values the same call returns.
C4_OverallIsRoundedWeightedSum ==
    ScoresReady =>
        LET w == WeightedHundredths(scores.valuation \div 1000,
                                    scores.quality \div 1000,
                                    scores.growth \div 1000,
                                    scores.momentum \div 1000)
        IN  scores.overall = K((w + 50) \div 100)

\* The weighted sum lies exactly half way between two integers.
C4_Witness ==
    /\ ScoresReady
    /\ WeightedHundredths(scores.valuation \div 1000, scores.quality \div 1000,
                          scores.growth \div 1000,
                          scores.momentum \div 1000) % 100 = 50
    /\ scores.valuation # K(50)
    /\ scores.growth # K(50)

\* C5: confidence is min(100, (k/4)*50 + |signalScore|*10 + 30) rounded half
\* up, k the number of the four category scores (overall not counted) that
\* differ from 50; it is an integer in [0,100] and never below 30.
C5_ConfidenceFormula ==
    pc = "done" =>
        LET k      == Cardinality({c \in Categories : scores[c] # K(50)})
            a      == MathAbs(BullMinusBear(signals))
            halves == MathMin(200, 25 * k + 20 * a + 60)
        IN  /\ recommendation.confidence = K((halves + 1) \div 2)
            /\ recommendation.confidence >= K(30)
            /\ recommendation.confidence <= K(100)

\* One category off 50 and balanced signals: 12.5 + 30 rounds up to 43.
C5_Witness ==
    /\ pc = "done"
    /\ Cardinality({c \in Categories : scores[c] # K(50)}) = 1
    /\ scores.overall # K(50)
    /\ BullMinusBear(signals) = 0
    /\ Len(signals) > 0
    /\ recommendation.confidence = K(43)

Clamp100(x) == MathMax(0, MathMin(K(100), x))

\* C6: with revenue_cagr_5y and eps_cagr_5y both absent the growth score is
\* exactly 50 whatever the other fundamentals; with at least one present it
\* is 50 plus the present metrics' band adjustments, clamped to [0,100].
C6_GrowthScore ==
    ScoresReady =>
        IF snapshot.revenue_cagr_5y = Null /\ snapshot.eps_cagr_5y = Null
        THEN scores.growth = K(50)
        ELSE scores.growth =
                Clamp100(K(50)
                         + (IF snapshot.revenue_cagr_5y # Null
                            THEN RevenueCagrAdjust(snapshot.revenue_cagr_5y)
                            ELSE 0)
                         + (IF snapshot.eps_cagr_5y # Null
                            THEN EpsCagrAdjust(snapshot.eps_cagr_5y)
                            ELSE 0))

\* Both growth metrics absent while other fundamentals are present.
C6_Witness ==
    /\ ScoresReady
    /\ snapshot.revenue_cagr_5y = Null
    /\ snapshot.eps_cagr_5y = Null
    /\ snapshot.pe # Null
    /\ snapshot.roe # Null
    /\ scores.valuation # K(50)
    /\ scores.growth = K(50)

TechnicalIndicatorNames == {"RSI", "MACD", "Momentum"}

\* C7: without an indicator set the momentum score is exactly 50 for every
\* snapshot and generateSignals emits no RSI, MACD or Momentum signal.
C7_NoTechnicalsNeutralMomentum ==
    (mode = "pipeline" /\ technicals = NoTechnicals) =>
        /\ ScoresReady => scores.momentum = K(50)
        /\ SignalsReady =>
              \A i \in 1..Len(signals) :
                  signals[i].indicator \notin TechnicalIndicatorNames

C7_Witness ==
    /\ mode = "pipeline"
    /\ technicals = NoTechnicals
    /\ pc = "done"
    /\ Len(signals) >= 2
    /\ scores.momentum = K(50)
    /\ scores.overall # K(50)

\* The adjustment a metric contributes when only present metrics count.
IfPresent(x, adjustment) == IF x # Null THEN adjustment ELSE 0

IndicatorsOf(sigs) == {sigs[i].indicator : i \in 1..Len(sigs)}

\* Every fundamentals metric is absent or exactly zero.
AllAbsentOrZero(s) == \A f \in DOMAIN s : s[f] \in {Null, Some(0)}

\* 1 if the metric is present (and then zero), 0 if it is absent.
ZeroAt(x) == IF x = Some(0) THEN 1 ELSE 0

\* C8: absence is never treated as zero.  An absent metric adds nothing to
\* its category score and emits no signal; a present 0 is scored by the
\* metric's thresholds (pe = 0 adds 15 to valuation, debt_to_equity = 0 adds
\* 15 to quality and emits the bullish Balance Sheet signal).
C8_AbsenceIsNotZero ==
    /\ ScoresReady =>
        /\ scores.valuation =
              Clamp100(K(50)
                  + IfPresent(snapshot.pe, PEAdjust(snapshot.pe))
                  + IfPresent(snapshot.peg, PEGAdjust(snapshot.peg))
                  + IfPresent(snapshot.fcf_yield, FCFAdjust(snapshot.fcf_yield)))
        /\ scores.quality =
              Clamp100(K(50)
                  + IfPresent(snapshot.roe, ROEAdjust(snapshot.roe))
                  + IfPresent(snapshot.operating_margin,
                              OperatingMarginAdjust(snapshot.operating_margin))
                  + IfPresent(snapshot.gross_margin,
                              GrossMarginAdjust(snapshot.gross_margin))
                  + IfPresent(snapshot.debt_to_equity,
                              DebtToEquityAdjust(snapshot.debt_to_equity))
                  + IfPresent(snapshot.current_ratio,
                              CurrentRatioAdjust(snapshot.current_ratio)))
        /\ scores.growth =
              Clamp100(K(50)
                  + IfPresent(snapshot.revenue_cagr_5y,
                              RevenueCagrAdjust(snapshot.revenue_cagr_5y))
                  + IfPresent(snapshot.eps_cagr_5y,
                              EpsCagrAdjust(snapshot.eps_cagr_5y)))
        /\ AllAbsentOrZero(snapshot) =>
              /\ scores.valuation =
                    K(50 + 15 * ZeroAt(snapshot.pe) + 15 * ZeroAt(snapshot.peg))
              /\ scores.quality =
                    K(50 - 5 * ZeroAt(snapshot.roe)
                         - 5 * ZeroAt(snapshot.operating_margin)
                         - 5 * ZeroAt(snapshot.gross_margin)
                         + 15 * ZeroAt(snapshot.debt_to_equity)
                         - 10 * ZeroAt(snapshot.current_ratio))
              /\ scores.growth = K(50 - 5 * ZeroAt(snapshot.revenue_cagr_5y))
    /\ SignalsReady =>
        /\ snapshot.pe = Null => "Valuation" \notin IndicatorsOf(signals)
        /\ snapshot.roe = Null => "Quality" \notin IndicatorsOf(signals)
        /\ snapshot.debt_to_equity = Null
              => "Balance Sheet" \notin IndicatorsOf(signals)
        /\ snapshot.revenue_cagr_5y = Null
              => "Growth" \notin IndicatorsOf(signals)
        /\ (AllAbsentOrZero(snapshot) /\ technicals = NoTechnicals) =>
              signals = IF snapshot.debt_to_equity = Some(0)
                        THEN <<Signal("bullish", "Balance Sheet", 2)>>
                        ELSE <<>>

\* pe and debt_to_equity present and zero next to absent metrics.
C8_Witness ==
    /\ SignalsReady
    /\ snapshot.pe = Some(0)
    /\ snapshot.peg = Null
    /\ snapshot.fcf_yield = Null
    /\ snapshot.debt_to_equity = Some(0)
    /\ snapshot.roe = Null
    /\ snapshot.revenue_cagr_5y = Null
    /\ scores.valuation = K(65)
    /\ signals = <<Signal("bullish", "Balance Sheet", 2)>>

\* The PE rule as the specification lists it, in points.
PERule(pe) ==
    IF pe = Null THEN 0
    ELSE IF Val(pe) < 0 THEN 0 - 10
    ELSE IF Val(pe) < K(10) THEN 15
    ELSE IF Val(pe) < K(15) THEN 10
    ELSE IF Val(pe) < K(20) THEN 5
    ELSE IF Val(pe) < K(30) THEN 0 - 5
    ELSE 0 - 10

\* C9: the PE rule adds -10 / +15 / +10 / +5 / -5 / -10 by band, whatever
\* PEG and FCF yield are: valuation(pe, peg, fcf_yield) minus
\* valuation(absent, peg, fcf_yield) is the PE adjustment, and the [0,100]
\* clamp never changes a valuation score.
C9_PEAdjustmentIndependent ==
    ScoresReady =>
        /\ scores.valuation
              - getValuationScore([snapshot EXCEPT !.pe = Null])
              = K(PERule(snapshot.pe))
        /\ scores.valuation =
              K(50) + PEAdjust(snapshot.pe) + PEGAdjust(snapshot.peg)
                    + FCFAdjust(snapshot.fcf_yield)

\* PE on a band boundary next to the worst PEG and FCF yield.
C9_Witness ==
    /\ ScoresReady
    /\ snapshot.pe = Some(K(30))
    /\ snapshot.peg = Some(3500)
    /\ snapshot.fcf_yield = Some(0 - 10)
    /\ scores.valuation = K(20)

\* The position of each rule's indicator in the order of the rules.
RuleRank(indicator) ==
    CASE indicator = "RSI" -> 1
      [] indicator = "MACD" -> 2
      [] indicator = "Valuation" -> 3
      [] indicator = "Quality" -> 4
      [] indicator = "Balance Sheet" -> 5
      [] indicator = "Growth" -> 6
      [] indicator = "Momentum" -> 7
      [] OTHER -> 0

\* C10: generateSignals emits at most one signal per rule, in rule order:
\* the indicator names form a subsequence of [RSI, MACD, Valuation, Quality,
\* Balance Sheet, Growth, Momentum] with no name repeated, so the list has
\* at most 7 entries.
C10_SignalsInRuleOrder ==
    SignalsReady =>
        /\ Len(signals) <= 7
        /\ \A i \in 1..Len(signals) : RuleRank(signals[i].indicator) >= 1
        /\ \A i \in 1..Len(signals), j \in 1..Len(signals) :
              i < j => RuleRank(signals[i].indicator)
                          < RuleRank(signals[j].indicator)

\* All seven rules fire.
C10_Witness ==
    /\ SignalsReady
    /\ Len(signals) = 7

SignalsOf(sigs, indicator) == SelectSeq(sigs, LAMBDA x : x.indicator = indicator)

\* C11: whenever a MACD histogram value is available generateSignals emits
\* exactly one MACD signal, of strength 2: bullish if the histogram is > 0,
\* bearish if it is <= 0 (a histogram of exactly 0 is bearish).
C11_MacdSignalBySign ==
    (SignalsReady /\ TechField(technicals, "macd_histogram") # Null) =>
        LET h == Val(TechField(technicals, "macd_histogram"))
        IN  SignalsOf(signals, "MACD")
               = <<Signal(IF h > 0 THEN "bullish" ELSE "bearish", "MACD", 2)>>

\* The histogram is exactly 0.
C11_Witness ==
    /\ SignalsReady
    /\ TechField(technicals, "macd_histogram") = Some(0)
    /\ SignalsOf(signals, "MACD") = <<Signal("bearish", "MACD", 2)>>

\* C12: the RSI rule emits a bullish signal iff RSI < 30 (strength 3 iff
\* RSI < 20, else 2), a bearish signal iff RSI > 70 (strength 3 iff RSI > 80,
\* else 2), and nothing for 30 <= RSI <= 70 or when RSI is unavailable.
C12_RsiSignalBands ==
    SignalsReady =>
        LET rsi == TechField(technicals, "rsi_14")
        IN  SignalsOf(signals, "RSI") =
               IF rsi = Null THEN <<>>
               ELSE IF Val(rsi) < K(30)
                    THEN <<Signal("bullish", "RSI",
                                  IF Val(rsi) < K(20) THEN 3 ELSE 2)>>
               ELSE IF Val(rsi) > K(70)
                    THEN <<Signal("bearish", "RSI",
                                  IF Val(rsi) > K(80) THEN 3 ELSE 2)>>
               ELSE <<>>

\* RSI exactly 80: bearish, strength 2.
C12_Witness ==
    /\ SignalsReady
    /\ TechField(technicals, "rsi_14") = Some(K(80))
    /\ SignalsOf(signals, "RSI") = <<Signal("bearish", "RSI", 2)>>

MaxOf(S) == CHOOSE x \in S : \A y \in S : y <= x

\* C13: for the strong-fundamentals scenario without an indicator set the
\* pipeline gives valuation, quality and growth above 50, momentum 50, an
\* overall strictly between 50 and the largest category score, only bullish
\* signals (Valuation, Quality, Balance Sheet, Growth), and Buy or Strong Buy.
C13_StrongFundamentalsScenario ==
    (mode = "pipeline" /\ snapshot = ScenarioSnapshot
        /\ technicals = NoTechnicals) =>
        /\ ScoresReady =>
              /\ scores.valuation > K(50)
              /\ scores.quality > K(50)
              /\ scores.growth > K(50)
              /\ scores.momentum = K(50)
              /\ scores.overall > K(50)
              /\ scores.overall < MaxOf({scores[c] : c \in Categories})
        /\ SignalsReady =>
              /\ [i \in 1..Len(signals) |-> signals[i].indicator]
                    = <<"Valuation", "Quality", "Balance Sheet", "Growth">>
              /\ \A i \in 1..Len(signals) : signals[i].type = "bullish"
              /\ BullMinusBear(signals) >= 0
        /\ pc = "done" => recommendation.rating \in {"Buy", "Strong Buy"}

C13_Witness ==
    /\ mode = "pipeline"
    /\ snapshot = ScenarioSnapshot
    /\ technicals = NoTechnicals
    /\ pc = "done"
    /\ scores.overall = K(72)
    /\ recommendation.rating = "Strong Buy"

\* A snapshot with poor fundamentals and a low, positive P/E.
LoneBullishSnapshot ==
    [pe |-> Some(K(8)), peg |-> Some(3500), fcf_yield |-> Some(0 - 10),
     roe |-> Some(0 - 50), operating_margin |-> Some(0 - 50),
     gross_margin |-> Some(0), debt_to_equity |-> Null,
     current_ratio |-> Some(0), revenue_cagr_5y |-> Some(0 - 50),
     eps_cagr_5y |-> Some(0 - 50)]

\* C14: signals are not derived from the score breakdown: for the input
\* LoneBullishSnapshot (no indicator set) the overall score is poor (< 40)
\* while generateSignals returns exactly one signal, and it is bullish.
C14_PoorScoreLoneBullishSignal ==
    (SignalsReady /\ snapshot = LoneBullishSnapshot
        /\ technicals = NoTechnicals) =>
        /\ scores.overall < K(40)
        /\ Len(signals) = 1
        /\ signals[1].type = "bullish"

C14_Witness ==
    /\ SignalsReady
    /\ snapshot = LoneBullishSnapshot
    /\ technicals = NoTechnicals
    /\ scores.overall = K(29)
    /\ signals = <<Signal("bullish", "Valuation", 3)>>

(***************************************************************************)
(* Technical indicators (backend/src/utils/technical.ts, class             *)
(* TechnicalAnalyzer).                                                     *)
(*                                                                         *)
(* Numbers.  The analyzer divides by periods and by prices, so a number    *)
(* is here an exact fraction <<n, d>> in lowest terms with d > 0; the      *)
(* rounding of the floating-point operations is not modelled.  Math.sqrt   *)
(* of n/d is the largest fraction with denominator d whose square does not *)
(* exceed n/d, which is the exact root whenever that root is rational with *)
(* denominator dividing d.  Closes are positive, so no quotient has a zero *)
(* divisor that the code does not test for.                                *)
(*                                                                         *)
(* Arrays are sequences; index i of the source is index i + 1 here.        *)
(***************************************************************************)
RECURSIVE Gcd(_, _)
Gcd(a, b) == IF b = 0 THEN a ELSE Gcd(b, a % b)

Frac(n, d) ==
    LET s == IF d < 0 THEN 0 - 1 ELSE 1
        g == Gcd(MathAbs(n), MathAbs(d))
    IN  <<(s * n) \div g, (s * d) \div g>>

Num(n) == <<n, 1>>

\* JavaScript evaluates the operands of an operator before it applies the
\* operator: Strict(operands, e) is e, evaluated once the operands have been.
Strict(operands, e) == IF operands = operands THEN e ELSE e

Add(a, b) ==
    Strict(<<a, b>>, Frac(a[1] * b[2] + b[1] * a[2], a[2] * b[2]))

Sub(a, b) ==
    Strict(<<a, b>>, Frac(a[1] * b[2] - b[1] * a[2], a[2] * b[2]))

Times(a, b) == Strict(<<a, b>>, Frac(a[1] * b[1], a[2] * b[2]))

Over(a, b) == Strict(<<a, b>>, Frac(a[1] * b[2], a[2] * b[1]))

Less(a, b) == a[1] * b[2] < b[1] * a[2]

IsZero(a) == a[1] = 0

Abs(a) == <<MathAbs(a[1]), a[2]>>

Max2(a, b) == IF Less(a, b) THEN b ELSE a

RECURSIVE RootBetween(_, _, _)
RootBetween(n, lo, hi) ==
    IF hi - lo <= 1 THEN lo
    ELSE LET mid == (lo + hi) \div 2
         IN  IF mid * mid <= n THEN RootBetween(n, mid, hi)
             ELSE RootBetween(n, lo, mid)

\* Largest r with r * r <= n.
IntRoot(n) == RootBetween(n, 0, MathMin(n, 46340) + 1)

Sqrt(a) == Frac(IntRoot(a[1] * a[2]), a[2])

\* xs[lo] + ... + xs[hi], added left to right within each half.
RECURSIVE SumRange(_, _, _)
SumRange(xs, lo, hi) ==
    IF lo > hi THEN Num(0)
    ELSE IF lo = hi THEN xs[lo]
    ELSE LET mid == (lo + hi) \div 2
         IN  Add(SumRange(xs, lo, mid), SumRange(xs, mid + 1, hi))

Sum(xs) == SumRange(xs, 1, Len(xs))

\* Array.prototype.slice(-n)
SliceLast(xs, n) ==
    IF n >= Len(xs) THEN xs ELSE SubSeq(xs, Len(xs) - n + 1, Len(xs))

Last(xs) == xs[Len(xs)]

(***************************************************************************)
(* TechnicalAnalyzer.calculateRSI                                          *)
(***************************************************************************)
\* The close-to-close change of loop step i (1 <= i <= period).
RsiChange(ps, period, i) ==
    Sub(ps[Len(ps) - period + i], ps[Len(ps) - period + i - 1])

\* Faulty variant: no branch for a zero average loss, and a window without
\* change counts as neutral.
calculateRSI_FlatIsNeutral(ps, period) ==
    IF Len(ps) < period + 1 THEN Null
    ELSE LET gains  == Sum([i \in 1..period |->
                              IF Less(Num(0), RsiChange(ps, period, i))
                              THEN RsiChange(ps, period, i) ELSE Num(0)])
             losses == Sum([i \in 1..period |->
                              IF Less(Num(0), RsiChange(ps, period, i))
                              THEN Num(0)
                              ELSE Sub(Num(0), RsiChange(ps, period, i))])
         IN  IF IsZero(Add(gains, losses)) THEN Some(Num(50))
             ELSE Some(Over(Times(Num(100), gains), Add(gains, losses)))

\* Faulty variant: gains and losses are collected over the whole history.
calculateRSI_WholeHistory(ps, period) ==
    IF Len(ps) < period + 1 THEN Null
    ELSE LET gains  == Sum([i \in 1..(Len(ps) - 1) |->
                              IF Less(Num(0), Sub(ps[i + 1], ps[i]))
                              THEN Sub(ps[i + 1], ps[i]) ELSE Num(0)])
             losses == Sum([i \in 1..(Len(ps) - 1) |->
                              IF Less(Num(0), Sub(ps[i + 1], ps[i]))
                              THEN Num(0)
                              ELSE Sub(ps[i], ps[i + 1])])
             avgGain == Over(gains, Num(period))
             avgLoss == Over(losses, Num(period))
         IN  IF IsZero(avgLoss) THEN Some(Num(100))
             ELSE LET rs == Over(avgGain, avgLoss)
                  IN  Some(Sub(Num(100), Over(Num(100), Add(Num(1), rs))))

calculateRSI(ps, period) ==
    IF Len(ps) < period + 1 THEN Null
    ELSE LET gains  == Sum([i \in 1..period |->
                              IF Less(Num(0), RsiChange(ps, period, i))
                              THEN RsiChange(ps, period, i) ELSE Num(0)])
             losses == Sum([i \in 1..period |->
                              IF Less(Num(0), RsiChange(ps, period, i))
                              THEN Num(0)
                              ELSE Sub(Num(0), RsiChange(ps, period, i))])
             avgGain == Over(gains, Num(period))
             avgLoss == Over(losses, Num(period))
         IN  IF IsZero(avgLoss) THEN Some(Num(100))
             ELSE LET rs == Over(avgGain, avgLoss)
                  IN  Some(Sub(Num(100), Over(Num(100), Add(Num(1), rs))))

(***************************************************************************)
(* TechnicalAnalyzer.calculateEMAArray / calculateEMAFromArray             *)
(***************************************************************************)
\* An array index that was never assigned.
Hole == <<>>

\* Steps from..to of the loop `for (i = period; i < data.length; i++)` of
\* both EMA functions, each step appending ema[i] to the array so far.
RECURSIVE EmaLoop(_, _, _, _, _)
EmaLoop(data, multiplier, ema, from, to) ==
    IF from > to THEN ema
    ELSE IF from = to
    THEN LET prev == ema[from - 1]
         IN  Append(ema, Add(Times(Sub(data[from], prev), multiplier), prev))
    ELSE LET mid   == (from + to) \div 2
             first == EmaLoop(data, multiplier, ema, from, mid)
         IN  Strict(first, EmaLoop(data, multiplier, first, mid + 1, to))

calculateEMAArray(ps, period) ==
    IF Len(ps) < period THEN Null
    ELSE LET multiplier == Over(Num(2), Num(period + 1))
             sum        == Sum(SubSeq(ps, 1, period))
             seeded     == [i \in 1..period |->
                              IF i < period THEN Hole
                              ELSE Over(sum, Num(period))]
         IN  Some(EmaLoop(ps, multiplier, seeded, period + 1, Len(ps)))

calculateEMAFromArray(data, period) ==
    IF Len(data) < period THEN Null
    ELSE LET multiplier == Over(Num(2), Num(period + 1))
             sum        == Sum(SubSeq(data, 1, period))
             seeded     == [i \in 1..period |->
                              IF i < period THEN Hole
                              ELSE Over(sum, Num(period))]
         IN  Some(EmaLoop(data, multiplier, seeded, period + 1, Len(data)))

calculateEMA(ps, period) ==
    LET emaArray == calculateEMAArray(ps, period)
    IN  IF NotNull(emaArray) THEN Some(Last(Val(emaArray))) ELSE Null

(***************************************************************************)
(* TechnicalAnalyzer.calculateMACD                                         *)
(***************************************************************************)
NoMacd == [macd |-> Null, macd_signal |-> Null, macd_histogram |-> Null]

\* `x || null` for a number or undefined x.
OrNull(x) == IF x = Hole \/ IsZero(x) THEN Null ELSE Some(x)

calculateMACD(ps, fast, slow, signal) ==
    IF Len(ps) < slow + signal THEN NoMacd
    ELSE LET emaFast == calculateEMAArray(ps, fast)
             emaSlow == calculateEMAArray(ps, slow)
         IN  IF ~NotNull(emaFast) \/ ~NotNull(emaSlow) THEN NoMacd
             ELSE LET macdLine ==
                          [k \in 1..(Len(ps) - slow + 1) |->
                              Sub(Val(emaFast)[slow + k - 1],
                                  Val(emaSlow)[slow + k - 1])]
                      signalLine == calculateEMAFromArray(macdLine, signal)
                  IN  IF ~NotNull(signalLine) \/ Len(Val(signalLine)) = 0
                      THEN [macd |-> OrNull(IF macdLine = <<>> THEN Hole
                                            ELSE Last(macdLine)),
                            macd_signal |-> Null, macd_histogram |-> Null]
                      ELSE LET macd       == Last(macdLine)
                               macdSignal == Last(Val(signalLine))
                           IN  [macd |-> Some(macd),
                                macd_signal |-> Some(macdSignal),
                                macd_histogram |-> Some(Sub(macd, macdSignal))]

(***************************************************************************)
(* TechnicalAnalyzer.calculateSMA, calculateBollingerBands, calculateATR,  *)
(* getPriceChange, getVolumeRatio                                          *)
(***************************************************************************)
\* Faulty variant: the window must be strictly shorter than the history.
calculateSMA_StrictWindow(ps, period) ==
    IF Len(ps) <= period THEN Null
    ELSE Some(Over(Sum(SliceLast(ps, period)), Num(period)))

calculateSMA(ps, period) ==
    IF Len(ps) < period THEN Null
    ELSE Some(Over(Sum(SliceLast(ps, period)), Num(period)))

NoBands ==
    [bollinger_upper |-> Null, bollinger_middle |-> Null,
     bollinger_lower |-> Null]

\* Faulty variant: the bands are placed by the variance, no square root taken.
calculateBollingerBands_NoRoot(ps, period, stdDev) ==
    IF Len(ps) < period THEN NoBands
    ELSE LET slice        == SliceLast(ps, period)
             sma          == Over(Sum(slice), Num(period))
             squaredDiffs == [i \in 1..Len(slice) |->
                                Times(Sub(slice[i], sma), Sub(slice[i], sma))]
             variance     == Over(Sum(squaredDiffs), Num(period))
         IN  [bollinger_upper  |-> Some(Add(sma, Times(Num(stdDev), variance))),
              bollinger_middle |-> Some(sma),
              bollinger_lower  |-> Some(Sub(sma, Times(Num(stdDev), variance)))]

calculateBollingerBands(ps, period, stdDev) ==
    IF Len(ps) < period THEN NoBands
    ELSE LET slice        == SliceLast(ps, period)
             sma          == Over(Sum(slice), Num(period))
             squaredDiffs == [i \in 1..Len(slice) |->
                                Times(Sub(slice[i], sma), Sub(slice[i], sma))]
             variance     == Over(Sum(squaredDiffs), Num(period))
             std          == Sqrt(variance)
         IN  [bollinger_upper  |-> Some(Add(sma, Times(Num(stdDev), std))),
              bollinger_middle |-> Some(sma),
              bollinger_lower  |-> Some(Sub(sma, Times(Num(stdDev), std)))]

\* The true range pushed by loop step i (source index i, 1 <= i < length).
\* Faulty variant: the distances to the previous close keep their sign.
TrueRange_Signed(ps, hs, ls, i) ==
    LET high      == hs[i + 1]
        low       == ls[i + 1]
        prevClose == ps[i]
    IN  Max2(Max2(Sub(high, low), Sub(high, prevClose)),
             Sub(low, prevClose))

TrueRange(ps, hs, ls, i) ==
    LET high      == hs[i + 1]
        low       == ls[i + 1]
        prevClose == ps[i]
    IN  Max2(Max2(Sub(high, low), Abs(Sub(high, prevClose))),
             Abs(Sub(low, prevClose)))

calculateATR(ps, hs, ls, period) ==
    IF Len(ps) < period + 1 THEN Null
    ELSE LET trueRanges == [i \in 1..(Len(ps) - 1) |-> TrueRange(ps, hs, ls, i)]
             recentTR   == SliceLast(trueRanges, period)
         IN  Some(Over(Sum(recentTR), Num(period)))

getPriceChange(ps, days) ==
    IF Len(ps) <= days THEN Null
    ELSE LET current  == ps[Len(ps)]
             previous == ps[Len(ps) - days]
         IN  Some(Times(Over(Sub(current, previous), previous), Num(100)))

\* Faulty variant: the ratio is reported in percent.
getVolumeRatio_Percent(vs, avgPeriod) ==
    IF Len(vs) < avgPeriod THEN Null
    ELSE LET currentVolume == vs[Len(vs)]
             avgVolume     == Over(Sum(SliceLast(vs, avgPeriod)), Num(avgPeriod))
         IN  IF IsZero(avgVolume) THEN Null
             ELSE Some(Times(Over(currentVolume, avgVolume), Num(100)))

\* Faulty variant: a zero average volume is reported as a ratio of 0.
getVolumeRatio_ZeroForNoVolume(vs, avgPeriod) ==
    IF Len(vs) < avgPeriod THEN Null
    ELSE LET currentVolume == vs[Len(vs)]
             avgVolume     == Over(Sum(SliceLast(vs, avgPeriod)), Num(avgPeriod))
         IN  IF IsZero(avgVolume) THEN Some(Num(0))
             ELSE Some(Over(currentVolume, avgVolume))

getVolumeRatio(vs, avgPeriod) ==
    IF Len(vs) < avgPeriod THEN Null
    ELSE LET currentVolume == vs[Len(vs)]
             avgVolume     == Over(Sum(SliceLast(vs, avgPeriod)), Num(avgPeriod))
         IN  IF IsZero(avgVolume) THEN Null
             ELSE Some(Over(currentVolume, avgVolume))

(***************************************************************************)
(* TechnicalAnalyzer.calculateAll                                          *)
(***************************************************************************)
calculateAll(ps, hs, ls, vs) ==
    LET m == calculateMACD(ps, 12, 26, 9)
        b == calculateBollingerBands(ps, 20, 2)
    IN  [rsi_14 |-> calculateRSI(ps, 14),
         macd |-> m.macd,
         macd_signal |-> m.macd_signal,
         macd_histogram |-> m.macd_histogram,
         sma_20 |-> calculateSMA(ps, 20),
         sma_50 |-> calculateSMA(ps, 50),
         sma_200 |-> calculateSMA(ps, 200),
         ema_20 |-> calculateEMA(ps, 20),
         ema_50 |-> calculateEMA(ps, 50),
         bollinger_upper |-> b.bollinger_upper,
         bollinger_middle |-> b.bollinger_middle,
         bollinger_lower |-> b.bollinger_lower,
         atr_14 |-> calculateATR(ps, hs, ls, 14),
         price_change_1d |-> getPriceChange(ps, 1),
         price_change_5d |-> getPriceChange(ps, 5),
         price_change_20d |-> getPriceChange(ps, 20),
         volume_ratio |-> getVolumeRatio(vs, 20)]

(***************************************************************************)
(* Price histories handed to the TechnicalAnalyzer constructor.            *)
(***************************************************************************)
\* Longest history of the exhaustive family.
MaxBars == 4

\* Largest period, and largest number of days, passed to a single call.
MaxPeriod == 3

\* The flat family has every length up to MaxHistory, and the lengths around
\* calculateAll's longest window of 200 bars.
MaxHistory == 51

HistoryLengths == (0..MaxHistory) \cup {199, 200, 201}

Bar(close, high, low, volume) ==
    [close |-> close, high |-> high, low |-> low, volume |-> volume]

ShortCloses == UNION {[1..n -> 1..3] : n \in 0..MaxBars}

\* Offsets of a bar's high and low from its close; <<-1, 1>> puts the high
\* below the low.
BarShapes == {<<0, 0>>, <<1, -1>>, <<-1, 1>>, <<2, 0>>, <<0, -2>>}

ShapedBars(cs, shape) ==
    [i \in 1..Len(cs) |-> Bar(cs[i], cs[i] + shape[1], cs[i] + shape[2], 1)]

\* Regular and inverted bars in turn.
AlternatingBars(cs) ==
    [i \in 1..Len(cs) |->
        IF i % 2 = 1 THEN Bar(cs[i], cs[i] + 1, cs[i] - 1, 1)
        ELSE Bar(cs[i], cs[i] - 1, cs[i] + 1, 1)]

VolumeBars(vs) == [i \in 1..Len(vs) |-> Bar(1, 1, 1, vs[i])]

ShortHistories ==
    {ShapedBars(cs, shape) : cs \in ShortCloses, shape \in BarShapes}
    \cup {AlternatingBars(cs) : cs \in ShortCloses}
    \cup {VolumeBars(vs) : vs \in UNION {[1..n -> 0..2] : n \in 0..MaxBars}}

\* n bars closing at 100, the last one at `last`, every volume `volume`.
FlatBars(n, last, volume) ==
    [i \in 1..n |->
        LET c == IF i = n THEN last ELSE 100
        IN  Bar(c, c + 1, c - 1, volume)]

LongHistories ==
    {FlatBars(n, last, volume) :
        n \in HistoryLengths, last \in {90, 100, 110}, volume \in {0, 5}}

\* 20 or 21 bars closing at 2, the last three at any of 1..3.
MidCloses ==
    {[i \in 1..n |-> IF i <= n - 3 THEN 2 ELSE tail[i - (n - 3)]] :
        n \in {20, 21}, tail \in [1..3 -> 1..3]}

MidHistories == {ShapedBars(cs, shape) : cs \in MidCloses, shape \in BarShapes}

\* n bars with open = high = low = close = 100 and volume 1000.
FlatScenarioBars(n) == [i \in 1..n |-> Bar(100, 100, 100, 1000)]

ScenarioHistories == {FlatScenarioBars(n) : n \in {24, 25, 26}}

Histories ==
    ShortHistories \cup MidHistories \cup LongHistories \cup ScenarioHistories

Periods == 1..MaxPeriod

\* (fast, slow, signal) with fast <= slow.
MacdPeriods ==
    {c \in Periods \X Periods \X Periods : c[1] <= c[2]} \cup {<<12, 26, 9>>}

(***************************************************************************)
(* The analyzer as a state machine: the constructor fills the four arrays, *)
(* every public method is a call that leaves them alone and returns.       *)
(***************************************************************************)
NoCall == <<>>

Call(op, args, value) == [op |-> op, args |-> args, value |-> value]

NoScorer ==
    /\ snapshot = EmptySnapshot
    /\ technicals = NoTechnicals
    /\ scores = NoScores
    /\ signals = <<>>
    /\ recommendation = NoRecommendation

TechInit ==
    /\ mode = "analyzer"
    /\ pc = "constructed"
    /\ NoScorer
    /\ RestIdle
    /\ \E bars \in Histories :
          /\ prices = [i \in 1..Len(bars) |-> Num(bars[i].close)]
          /\ highs = [i \in 1..Len(bars) |-> Num(bars[i].high)]
          /\ lows = [i \in 1..Len(bars) |-> Num(bars[i].low)]
          /\ volumes = [i \in 1..Len(bars) |-> Num(bars[i].volume)]
    /\ returned = NoCall

Return(op, args, value) ==
    /\ mode = "analyzer"
    /\ returned = NoCall
    /\ returned' = Call(op, args, value)
    /\ UNCHANGED <<prices, highs, lows, volumes>>
    /\ UNCHANGED <<scorerVars, restVars>>

CalculateAll ==
    Return("calculateAll", <<>>, calculateAll(prices, highs, lows, volumes))

CalculateRSI ==
    \E period \in Periods \cup {14} :
        Return("calculateRSI", <<period>>, calculateRSI(prices, period))

CalculateMACD ==
    \E c \in MacdPeriods :
        Return("calculateMACD", c, calculateMACD(prices, c[1], c[2], c[3]))

CalculateSMA ==
    \E period \in Periods \cup {20, 50, 200} :
        Return("calculateSMA", <<period>>, calculateSMA(prices, period))

CalculateEMA ==
    \E period \in Periods \cup {20, 50} :
        Return("calculateEMA", <<period>>, calculateEMA(prices, period))

CalculateBollingerBands ==
    \E period \in Periods \cup {20}, stdDev \in {1, 2} :
        Return("calculateBollingerBands", <<period, stdDev>>,
               calculateBollingerBands(prices, period, stdDev))

CalculateATR ==
    \E period \in Periods \cup {14} :
        Return("calculateATR", <<period>>,
               calculateATR(prices, highs, lows, period))

GetPriceChange ==
    \E days \in Periods \cup {5, 20} :
        Return("getPriceChange", <<days>>, getPriceChange(prices, days))

GetVolumeRatio ==
    \E avgPeriod \in Periods \cup {20} :
        Return("getVolumeRatio", <<avgPeriod>>,
               getVolumeRatio(volumes, avgPeriod))

\* The caller drops the returned value; the analyzer can be called again.
Discard ==
    /\ mode = "analyzer"
    /\ returned # NoCall
    /\ returned' = NoCall
    /\ UNCHANGED <<prices, highs, lows, volumes>>
    /\ UNCHANGED <<scorerVars, restVars>>

TechNext ==
    \/ CalculateAll
    \/ CalculateRSI
    \/ CalculateMACD
    \/ CalculateSMA
    \/ CalculateEMA
    \/ CalculateBollingerBands
    \/ CalculateATR
    \/ GetPriceChange
    \/ GetVolumeRatio
    \/ Discard

SpecTech == TechInit /\ [][TechNext]_vars

(***************************************************************************)
(* Repeated calls of the core operations: two analyzers and two pairs of   *)
(* scorer inputs, called in any order, every call's argument and result    *)
(* recorded.                                                               *)
(***************************************************************************)
\* The most calls recorded in one behaviour.
MaxCalls == 4

\* The analyzer constructed from `bars`: the caller's array and the four
\* arrays the constructor derives from it.
TechnicalAnalyzer(bars) ==
    [bars    |-> bars,
     prices  |-> [i \in 1..Len(bars) |-> Num(bars[i].close)],
     highs   |-> [i \in 1..Len(bars) |-> Num(bars[i].high)],
     lows    |-> [i \in 1..Len(bars) |-> Num(bars[i].low)],
     volumes |-> [i \in 1..Len(bars) |-> Num(bars[i].volume)]]

PurityHistories ==
    {FlatScenarioBars(25), ShapedBars(<<3, 1, 2, 2>>, <<1, -1>>)}

PurityInputs ==
    {<<ScenarioSnapshot, NoTechnicals>>,
     <<EmptySnapshot,
       Some([rsi_14 |-> Some(K(90)), macd_histogram |-> Some(0 - 500),
             price_change_20d |-> Some(0 - K(15)),
             volume_ratio |-> Some(K(1))])>>}

Seen(op, on, input, output) ==
    [op |-> op, on |-> on, input |-> input, output |-> output]

PureInit ==
    /\ mode = "purity"
    /\ pc = "calls"
    /\ NoScorer
    /\ NoAnalyzer
    /\ instances \in [1..2 -> {TechnicalAnalyzer(bars) : bars \in PurityHistories}]
    /\ inputs \in [1..2 -> PurityInputs]
    /\ seen = <<>>
    /\ NoClient
    /\ NoCache
    /\ NoRuns

\* A call that returns `output` for the argument `input`, appended to the
\* record of calls; it assigns to no field and to no argument.
Record(op, on, input, output) ==
    /\ mode = "purity"
    /\ Len(seen) < MaxCalls
    /\ seen' = Append(seen, Seen(op, on, input, output))
    /\ UNCHANGED <<instances, inputs>>
    /\ UNCHANGED <<scorerVars, analyzerVars, clientVars, cacheVars, runVars>>

\* Faulty variant: calculateAll takes the last close off the stored series.
CallCalculateAll_ConsumesSeries ==
    \E a \in 1..2 :
        LET this == instances[a]
        IN  /\ mode = "purity"
            /\ Len(seen) < MaxCalls
            /\ seen' = Append(seen,
                   Seen("calculateAll", a, this.bars,
                        calculateAll(this.prices, this.highs, this.lows,
                                     this.volumes)))
            /\ instances' =
                   [instances EXCEPT ![a].prices =
                       SubSeq(this.prices, 1, Len(this.prices) - 1)]
            /\ UNCHANGED inputs
            /\ UNCHANGED <<scorerVars, analyzerVars, clientVars, cacheVars, runVars>>

CallCalculateAll ==
    \E a \in 1..2 :
        LET this == instances[a]
        IN  Record("calculateAll", a, this.bars,
                   calculateAll(this.prices, this.highs, this.lows,
                                this.volumes))

CallCalculateScores ==
    \E i \in 1..2 :
        Record("calculateScores", i, inputs[i],
               calculateScores(inputs[i][1], inputs[i][2]))

CallGenerateSignals ==
    \E i \in 1..2 :
        Record("generateSignals", i, inputs[i],
               generateSignals(inputs[i][1], inputs[i][2]))

\* getRecommendation is handed a breakdown and a signal list returned earlier.
CallGetRecommendation ==
    \E j \in 1..Len(seen), k \in 1..Len(seen) :
        /\ seen[j].op = "calculateScores"
        /\ seen[k].op = "generateSignals"
        /\ Record("getRecommendation", 0, <<seen[j].output, seen[k].output>>,
                  getRecommendation(seen[j].output, seen[k].output))

PureNext ==
    \/ CallCalculateAll
    \/ CallCalculateScores
    \/ CallGenerateSignals
    \/ CallGetRecommendation

SpecPure == PureInit /\ [][PureNext]_vars

(***************************************************************************)
(* YahooFinanceClient (backend/src/utils/yahoo-client.ts): rateLimit and   *)
(* fetchWithRetry, called by concurrent callers on one client.  Times are  *)
(* milliseconds.  JavaScript runs a caller without interruption between    *)
(* two awaits, so the code between two awaits is one action.               *)
(***************************************************************************)
REQUEST_DELAY_MS == 200

MAX_RETRIES == 3

\* Concurrent fetchWithRetry calls on the one client.
NumCallers == 2

\* Largest maxRetries handed to fetchWithRetry.
MaxAttempts == 4

\* The clock value up to which time also passes in steps without a timer.
MaxClock == 1100

Callers == 1..NumCallers

\* A caller's call: where it is, the loop variable, the timer it sleeps on,
\* and what it has done so far: the wait times slept after rate-limit
\* errors, the times its operation was invoked, how each invocation settled.

NotCalled ==
    [pc |-> "idle", maxRetries |-> 0, attempt |-> 0, wakeAt |-> 0,
     waits |-> <<>>, began |-> <<>>, settled |-> <<>>,
     result |-> "pending"]

\* The client is new (lastRequestTime = 0), or an earlier request, finished
\* by now, was stamped 100 ms ago.
ClientInit ==
    /\ mode = "client"
    /\ pc = "constructed"
    /\ NoScorer
    /\ NoAnalyzer
    /\ NoPurity
    /\ NoCache
    /\ NoRuns
    /\ now = 1000
    /\ lastRequestTime \in {0, 900}
    /\ callers = [p \in Callers |-> NotCalled]

ClientFrame ==
    UNCHANGED <<scorerVars, analyzerVars, purityVars, cacheVars, runVars>>

\* The loop body up to the start of the operation: rateLimit reads the clock
\* and either sleeps or stamps lastRequestTime, after which the operation is
\* invoked.
BeginAttempt(p, c) ==
    LET timeSinceLastRequest == now - lastRequestTime
    IN  IF timeSinceLastRequest < REQUEST_DELAY_MS
        THEN /\ callers' =
                   [callers EXCEPT ![p] =
                       [c EXCEPT !.pc = "rateLimit",
                                 !.wakeAt = now + (REQUEST_DELAY_MS
                                                   - timeSinceLastRequest)]]
             /\ UNCHANGED lastRequestTime
        ELSE /\ callers' =
                   [callers EXCEPT ![p] =
                       [c EXCEPT !.pc = "operation",
                                 !.began = Append(@, now)]]
             /\ lastRequestTime' = now

\* A caller invokes fetchWithRetry(operation, symbol, maxRetries).
FetchWithRetry(p) ==
    /\ mode = "client"
    /\ callers[p].pc = "idle"
    /\ \E maxRetries \in 0..MaxAttempts :
          IF maxRetries < 1
          THEN /\ callers' = [callers EXCEPT ![p] =
                                 [NotCalled EXCEPT !.pc = "done",
                                                   !.result = "null"]]
               /\ UNCHANGED lastRequestTime
          ELSE BeginAttempt(p, [NotCalled EXCEPT !.maxRetries = maxRetries,
                                                 !.attempt = 1])
    /\ UNCHANGED now
    /\ ClientFrame

\* The timer of rateLimit's sleep fires: lastRequestTime is stamped and the
\* operation is invoked.
RateLimitWakes(p) ==
    /\ mode = "client"
    /\ callers[p].pc = "rateLimit"
    /\ now >= callers[p].wakeAt
    /\ callers' = [callers EXCEPT ![p].pc = "operation",
                                  ![p].began = Append(@, now)]
    /\ lastRequestTime' = now
    /\ UNCHANGED now
    /\ ClientFrame

\* The operation resolves: its value is returned.
OperationReturns(p) ==
    /\ mode = "client"
    /\ callers[p].pc = "operation"
    /\ callers' = [callers EXCEPT ![p].pc = "done", ![p].result = "value",
                                  ![p].settled = Append(@, "returned")]
    /\ UNCHANGED <<now, lastRequestTime>>
    /\ ClientFrame

\* The operation throws, with a rate-limit message or with another one.
OperationThrows(p) ==
    /\ mode = "client"
    /\ callers[p].pc = "operation"
    /\ \E rateLimited \in BOOLEAN :
          IF rateLimited
          THEN LET waitTime == callers[p].attempt * 5000
               IN  callers' = [callers EXCEPT ![p].pc = "backoff",
                                              ![p].waits = Append(@, waitTime),
                                              ![p].wakeAt = now + waitTime,
                                              ![p].settled =
                                                  Append(@, "rate limit")]
          ELSE callers' = [callers EXCEPT ![p].pc = "done",
                                          ![p].result = "null",
                                          ![p].settled = Append(@, "error")]
    /\ UNCHANGED <<now, lastRequestTime>>
    /\ ClientFrame

\* Faulty variant: the loop gives up one attempt late.
BackoffWakes_OneMoreAttempt(p) ==
    /\ mode = "client"
    /\ callers[p].pc = "backoff"
    /\ now >= callers[p].wakeAt
    /\ IF callers[p].attempt > callers[p].maxRetries
       THEN /\ callers' = [callers EXCEPT ![p].pc = "done",
                                          ![p].result = "null"]
            /\ UNCHANGED lastRequestTime
       ELSE BeginAttempt(p, [callers[p] EXCEPT !.attempt = @ + 1])
    /\ UNCHANGED now
    /\ ClientFrame

\* The timer of the backoff sleep fires: null after the last attempt,
\* otherwise the next attempt begins.
BackoffWakes(p) ==
    /\ mode = "client"
    /\ callers[p].pc = "backoff"
    /\ now >= callers[p].wakeAt
    /\ IF callers[p].attempt = callers[p].maxRetries
       THEN /\ callers' = [callers EXCEPT ![p].pc = "done",
                                          ![p].result = "null"]
            /\ UNCHANGED lastRequestTime
       ELSE BeginAttempt(p, [callers[p] EXCEPT !.attempt = @ + 1])
    /\ UNCHANGED now
    /\ ClientFrame

Sleeping(p) == callers[p].pc \in {"rateLimit", "backoff"}

\* Time passes, once every timer that is due has fired: to the next timer,
\* or by 100 ms.
TimePasses ==
    /\ mode = "client"
    /\ \A p \in Callers : Sleeping(p) => callers[p].wakeAt > now
    /\ \/ /\ now < MaxClock
          /\ now' = now + 100
       \/ \E p \in Callers :
             /\ Sleeping(p)
             /\ callers[p].wakeAt > now
             /\ \A q \in Callers :
                   (Sleeping(q) /\ callers[q].wakeAt > now)
                       => callers[p].wakeAt <= callers[q].wakeAt
             /\ now' = callers[p].wakeAt
    /\ UNCHANGED <<lastRequestTime, callers>>
    /\ ClientFrame

ClientNext ==
    \/ \E p \in Callers : FetchWithRetry(p)
    \/ \E p \in Callers : RateLimitWakes(p)
    \/ \E p \in Callers : OperationReturns(p)
    \/ \E p \in Callers : OperationThrows(p)
    \/ \E p \in Callers : BackoffWakes(p)
    \/ TimePasses

SpecClient == ClientInit /\ [][ClientNext]_vars

\* Timers fire, the clock moves on and every invoked operation settles.
SpecClientFair == SpecClient /\ WF_vars(ClientNext)

(***************************************************************************)
(* CacheManager (backend/src/utils/cache.ts): a memory map in front of one *)
(* JSON file per key.  Times are milliseconds.  The directory outlives the *)
(* CacheManager: a new manager on the same directory starts with an empty  *)
(* memory map.  File operations are taken to succeed.                      *)
(***************************************************************************)
\* The most cache calls made in one behaviour.
MaxCacheCalls == 4

\* Largest ttlSeconds handed to set.
MaxTtl == 2

\* The clock value up to which time passes, in steps of one second.
MaxCacheClock == 3000

\* Keys are sequences of characters.
Keys == {<<"a", ".", "b">>, <<"a", "_", "b">>, <<"c">>}

\* The characters [a-zA-Z0-9_-] among those the keys are made of.
SafeCharacters == {"a", "b", "c", "_", "-"}

\* getCachePath: every other character becomes "_", and ".json" is appended;
\* the directory is the same for every key.
getCachePath(key) ==
    [i \in 1..Len(key) |->
        IF key[i] \in SafeCharacters THEN key[i] ELSE "_"] \o <<".json">>

\* Cached data: a snapshot of numbers and strings, or price bars, whose date
\* field is a Date object.
CacheData ==
    {[kind |-> "snapshot", date |-> "none"], [kind |-> "bars", date |-> "Date"]}

\* JSON.parse(JSON.stringify(data)): a Date comes back as its ISO string.
JsonRoundTrip(data) ==
    IF data.date = "Date" THEN [data EXCEPT !.date = "string"] ELSE data

Entry(data, expiresAt, createdAt) ==
    [data |-> data, expiresAt |-> expiresAt, createdAt |-> createdAt]

JsonEntry(entry) == [entry EXCEPT !.data = JsonRoundTrip(entry.data)]

Paths == {getCachePath(key) : key \in Keys}

\* What the calls made so far have done: their number, the latest set call
\* with whether only get calls and new managers followed it, the data last
\* stored under each key, and the latest get call with its result; oneManager
\* holds while only set, get, delete and clear were called on one manager.
NoCacheCalls ==
    [calls |-> 0, lastSet |-> Null, onlyGetsSince |-> FALSE,
     oneManager |-> TRUE,
     stored |-> [key \in Keys |-> Null], got |-> Null]

CacheInit ==
    /\ mode = "cache"
    /\ pc = "constructed"
    /\ NoScorer
    /\ NoAnalyzer
    /\ NoPurity
    /\ now = 0
    /\ lastRequestTime = 0
    /\ callers = <<>>
    /\ memoryCache = [key \in Keys |-> Null]
    /\ files = [path \in Paths |-> Null]
    /\ cacheLog = NoCacheCalls
    /\ NoRuns

CacheFrame ==
    UNCHANGED <<scorerVars, analyzerVars, purityVars, lastRequestTime, callers,
                runVars>>

CanCall == mode = "cache" /\ cacheLog.calls < MaxCacheCalls

Counted == [cacheLog EXCEPT !.calls = @ + 1]

\* get(key) returns `result`.
Got(key, result) ==
    cacheLog' = [Counted EXCEPT
                    !.got = Some([key |-> key, result |-> result, at |-> now])]

\* get(key)
CacheGet(key) ==
    LET memEntry == memoryCache[key]
        memHit   == NotNull(memEntry) /\ now < Val(memEntry).expiresAt
        cachePath == getCachePath(key)
        afterMem == [memoryCache EXCEPT ![key] = Null]
    IN  /\ CanCall
        /\ IF memHit
           THEN /\ Got(key, Some(Val(memEntry).data))
                /\ UNCHANGED <<memoryCache, files>>
           ELSE IF ~NotNull(files[cachePath])
           THEN /\ Got(key, Null)
                /\ memoryCache' = afterMem
                /\ UNCHANGED files
           ELSE LET entry == Val(files[cachePath])
                IN  IF now >= entry.expiresAt
                    THEN /\ Got(key, Null)
                         /\ memoryCache' = afterMem
                         /\ files' = [files EXCEPT ![cachePath] = Null]
                    ELSE /\ Got(key, Some(entry.data))
                         /\ memoryCache' = [memoryCache EXCEPT
                                               ![key] = Some(entry)]
                         /\ UNCHANGED files
        /\ UNCHANGED now
        /\ CacheFrame

\* set(key, data, ttlSeconds)
CacheSet(key, data, ttlSeconds) ==
    LET entry == Entry(data, now + ttlSeconds * 1000, now)
    IN  /\ CanCall
        /\ cacheLog' = [Counted EXCEPT
                           !.lastSet = Some([key |-> key, entry |-> entry]),
                           !.onlyGetsSince = TRUE,
                           !.stored[key] = Some(data),
                           !.got = Null]
        /\ memoryCache' = [memoryCache EXCEPT ![key] = Some(entry)]
        /\ files' = [files EXCEPT ![getCachePath(key)] = Some(JsonEntry(entry))]
        /\ UNCHANGED now
        /\ CacheFrame

\* delete(key)
CacheDelete(key) ==
    /\ CanCall
    /\ cacheLog' = [Counted EXCEPT !.onlyGetsSince = FALSE,
                                   !.stored[key] = Null,
                                   !.got = Null]
    /\ memoryCache' = [memoryCache EXCEPT ![key] = Null]
    /\ files' = [files EXCEPT ![getCachePath(key)] = Null]
    /\ UNCHANGED now
    /\ CacheFrame

\* clear()
CacheClear ==
    /\ CanCall
    /\ cacheLog' = [Counted EXCEPT !.onlyGetsSince = FALSE,
                                   !.stored = [key \in Keys |-> Null],
                                   !.got = Null]
    /\ memoryCache' = [key \in Keys |-> Null]
    /\ files' = [path \in Paths |-> Null]
    /\ UNCHANGED now
    /\ CacheFrame

\* cleanupExpired()
CacheCleanupExpired ==
    /\ CanCall
    /\ cacheLog' = [Counted EXCEPT !.onlyGetsSince = FALSE,
                                   !.oneManager = FALSE]
    /\ files' = [path \in Paths |->
                    IF NotNull(files[path]) /\ now >= Val(files[path]).expiresAt
                    THEN Null ELSE files[path]]
    /\ UNCHANGED <<memoryCache, now>>
    /\ CacheFrame

\* new CacheManager(cacheDir) on the same directory, by a later run.
CacheManagerNew ==
    /\ CanCall
    /\ cacheLog' = [Counted EXCEPT !.oneManager = FALSE]
    /\ memoryCache' = [key \in Keys |-> Null]
    /\ UNCHANGED <<files, now>>
    /\ CacheFrame

CacheTimePasses ==
    /\ mode = "cache"
    /\ now < MaxCacheClock
    /\ now' = now + 1000
    /\ UNCHANGED cacheVars
    /\ CacheFrame

CacheNext ==
    \/ \E key \in Keys : CacheGet(key)
    \/ \E key \in Keys, data \in CacheData, ttlSeconds \in 1..MaxTtl :
          CacheSet(key, data, ttlSeconds)
    \/ \E key \in Keys : CacheDelete(key)
    \/ CacheClear
    \/ CacheCleanupExpired
    \/ CacheManagerNew
    \/ CacheTimePasses

SpecCache == CacheInit /\ [][CacheNext]_vars

(***************************************************************************)
(* YahooFinanceClient.batchFetch (yahoo-client.ts).  One call with its      *)
(* locals: the loop index i, the promises of the batch in progress, the    *)
(* result list and the completed counter.  fetchEnhanced is a remote call   *)
(* that settles at any later moment with a success or a failure result;    *)
(* the mapped function then counts it and reports progress, and rejects    *)
(* when the progress callback throws.  calls records every fetchEnhanced   *)
(* call made: the position of its symbol, the batch that made it and       *)
(* whether it has settled.                                                 *)
(***************************************************************************)
MaxSymbols == 4

MaxConcurrency == 3

Tickers == {"A", "B", "C"}

RECURSIVE SeqsUpTo(_, _)
SeqsUpTo(S, n) ==
    IF n = 0 THEN {<<>>}
    ELSE LET shorter == SeqsUpTo(S, n - 1)
         IN  shorter \cup {Append(xs, x) : xs \in shorter, x \in S}

SymbolLists == SeqsUpTo(Tickers, MaxSymbols)

Concurrencies == 1..MaxConcurrency

Min2(a, b) == IF a < b THEN a ELSE b

\* symbols.slice(from, to), with zero-based indices as in the source
slice(xs, from, to) == SubSeq(xs, from + 1, Min2(to, Len(xs)))

EnhancedFetchResult(success, symbol) == [success |-> success, symbol |-> symbol]

NotCalledBatch == [pc |-> "idle"]

BatchInit ==
    /\ mode = "batch"
    /\ pc = "constructed"
    /\ NoScorer
    /\ NoAnalyzer
    /\ NoPurity
    /\ NoClient
    /\ NoCache
    /\ batchCall = NotCalledBatch
    /\ scriptRun = <<>>

BatchFrame ==
    UNCHANGED <<scorerVars, analyzerVars, purityVars, clientVars, cacheVars,
                scriptRun>>

\* The head of the for loop with index i: either the loop is over and the
\* results are returned, or the next batch is sliced and fetchEnhanced is
\* called for each of its symbols, up to the await of Promise.all.
LoopFrom(b, i) ==
    IF i < Len(b.symbols)
    THEN LET batch == slice(b.symbols, i, i + b.concurrency)
         IN  [b EXCEPT
                 !.pc = "awaiting",
                 !.i = i,
                 !.batchPromises =
                     [k \in 1..Len(batch) |->
                         [symbol |-> batch[k], state |-> "pending",
                          result |-> Null, call |-> Len(b.calls) + k]],
                 !.calls = b.calls \o
                     [k \in 1..Len(batch) |->
                         [at |-> i + k, symbol |-> batch[k], batch |-> i,
                          state |-> "inFlight"]]]
    ELSE [b EXCEPT !.pc = "returned", !.i = i]

\* batchFetch(symbols, { concurrency })
BatchFetch(symbols, concurrency) ==
    /\ mode = "batch"
    /\ batchCall.pc = "idle"
    /\ batchCall' = LoopFrom([pc |-> "called", symbols |-> symbols,
                              concurrency |-> concurrency, i |-> 0,
                              batchPromises |-> <<>>, results |-> <<>>,
                              completed |-> 0, calls |-> <<>>], 0)
    /\ BatchFrame

\* fetchEnhanced of the k-th promise of the batch settles; the mapped function
\* counts it, reports progress and returns the result, or rejects when the
\* progress callback throws.  The other promises of a batch go on after
\* Promise.all has rejected.
FetchEnhancedSettles(k, success, callbackThrows) ==
    /\ mode = "batch"
    /\ batchCall.pc \in {"awaiting", "rejected"}
    /\ k \in 1..Len(batchCall.batchPromises)
    /\ batchCall.batchPromises[k].state = "pending"
    /\ LET promise == batchCall.batchPromises[k]
       IN  batchCall' =
               [batchCall EXCEPT
                   !.completed = @ + 1,
                   !.batchPromises[k] =
                       IF callbackThrows
                       THEN [promise EXCEPT !.state = "rejected"]
                       ELSE [promise EXCEPT
                                !.state = "fulfilled",
                                !.result = Some(EnhancedFetchResult(
                                                    success, promise.symbol))],
                   !.calls[promise.call].state = "settled"]
    /\ BatchFrame

AfterBatch(b) ==
    IF b.i + b.concurrency < Len(b.symbols)
    THEN [b EXCEPT !.pc = "sleeping"]
    ELSE LoopFrom(b, b.i + b.concurrency)

\* Faulty variant: the batch is awaited with Promise.race.
PromiseAllResolves_Race ==
    /\ mode = "batch"
    /\ batchCall.pc = "awaiting"
    /\ \E k \in 1..Len(batchCall.batchPromises) :
           /\ batchCall.batchPromises[k].state = "fulfilled"
           /\ batchCall' =
                  AfterBatch([batchCall EXCEPT
                      !.results = Append(@, Val(batchCall.batchPromises[k].result))])
    /\ BatchFrame

\* await Promise.all(batchPromises) resolves with the results in the order of
\* the promises; results.push(...batchResults); then the delay between
\* batches, or the end of the loop.
PromiseAllResolves ==
    /\ mode = "batch"
    /\ batchCall.pc = "awaiting"
    /\ \A k \in 1..Len(batchCall.batchPromises) :
           batchCall.batchPromises[k].state = "fulfilled"
    /\ LET batchResults == [k \in 1..Len(batchCall.batchPromises) |->
                               Val(batchCall.batchPromises[k].result)]
       IN  batchCall' =
               AfterBatch([batchCall EXCEPT !.results = @ \o batchResults])
    /\ BatchFrame

\* await Promise.all(batchPromises) rejects as soon as one promise has
\* rejected; batchFetch rejects with it.
PromiseAllRejects ==
    /\ mode = "batch"
    /\ batchCall.pc = "awaiting"
    /\ \E k \in 1..Len(batchCall.batchPromises) :
           batchCall.batchPromises[k].state = "rejected"
    /\ batchCall' = [batchCall EXCEPT !.pc = "rejected"]
    /\ BatchFrame

\* await this.sleep(500) ends; i += concurrency and the loop goes on.
BatchSleepWakes ==
    /\ mode = "batch"
    /\ batchCall.pc = "sleeping"
    /\ batchCall' = LoopFrom(batchCall, batchCall.i + batchCall.concurrency)
    /\ BatchFrame

BatchNext ==
    \/ \E symbols \in SymbolLists, concurrency \in Concurrencies :
           BatchFetch(symbols, concurrency)
    \/ \E k \in 1..MaxConcurrency, success \in BOOLEAN, callbackThrows \in BOOLEAN :
           FetchEnhancedSettles(k, success, callbackThrows)
    \/ PromiseAllResolves
    \/ PromiseAllRejects
    \/ BatchSleepWakes

SpecBatch == BatchInit /\ [][BatchNext]_vars

(***************************************************************************)
(* The enhanced fetchAllStocks script (scripts/fetch-all-stocks.ts) with    *)
(* the SupabaseService calls it awaits (supabase-client.ts).  One action    *)
(* per await: the code between two awaits runs without interruption.       *)
(* createETLJob and getActiveStocks throw on a database error;             *)
(* updateETLJob and logAPIUsage log the error and return; saveToDatabase   *)
(* catches every error and returns a SaveResult.  updates lists the status *)
(* updates issued for the job, job is its row in etl_jobs, usage the last  *)
(* entry handed to logAPIUsage.                                            *)
(***************************************************************************)
MaxStocks == 3

MIN_QUALITY_SCORE == 40

StockLists == SeqsUpTo(Tickers, MaxStocks)

FetchResults ==
    {[success |-> FALSE, data_quality_score |-> 0]}
        \cup {[success |-> TRUE, data_quality_score |-> q] :
                 q \in {MIN_QUALITY_SCORE - 1, MIN_QUALITY_SCORE}}

NotRun == [pc |-> "idle"]

ScriptInit ==
    /\ mode = "script"
    /\ pc = "constructed"
    /\ NoScorer
    /\ NoAnalyzer
    /\ NoPurity
    /\ NoClient
    /\ NoCache
    /\ batchCall = <<>>
    /\ scriptRun = NotRun

ScriptFrame ==
    UNCHANGED <<scorerVars, analyzerVars, purityVars, clientVars, cacheVars,
                batchCall>>

At(label) == mode = "script" /\ scriptRun.pc = label

\* fetchAllStocks(): up to await supabase.createETLJob(...)
FetchAllStocks ==
    /\ At("idle")
    /\ scriptRun' = [pc |-> "createETLJob", job |-> Null, updates |-> <<>>,
                     stocks |-> <<>>, i |-> 0, path |-> "none", usage |-> Null,
                     stats |-> [total |-> 0, successful |-> 0, failed |-> 0,
                                skipped |-> 0]]
    /\ ScriptFrame

\* createETLJob inserted the row with status 'running' and returned it; the
\* script goes on to await supabase.getActiveStocks().
CreateETLJobReturns ==
    /\ At("createETLJob")
    /\ scriptRun' = [scriptRun EXCEPT !.pc = "getActiveStocks",
                                      !.job = Some([status |-> "running"])]
    /\ ScriptFrame

\* createETLJob throws: no job exists and fetchAllStocks rejects.
CreateETLJobThrows ==
    /\ At("createETLJob")
    /\ scriptRun' = [scriptRun EXCEPT !.pc = "rejected"]
    /\ ScriptFrame

\* supabase.updateETLJob(job.id, updates) is called.
IssueUpdate(r, update) ==
    [r EXCEPT !.pc = "updateETLJob", !.updates = Append(@, update)]

\* The head of the for loop with index i: the next stock is fetched, or the
\* loop is over and the job is updated as completed.
StockLoopFrom(r, i) ==
    IF i < Len(r.stocks)
    THEN [r EXCEPT !.pc = "fetchEnhanced", !.i = i]
    ELSE IssueUpdate([r EXCEPT !.i = i, !.path = "loop ended"],
                     [status |-> "completed",
                      records_processed |-> r.stats.successful])

\* The catch of the outer try: the job is updated as failed.
FatalError(r) ==
    IssueUpdate([r EXCEPT !.path = "error escaped"], [status |-> "failed"])

\* getActiveStocks returns the active stocks; stats.total is set and the loop
\* starts.
GetActiveStocksReturns(stocks) ==
    /\ At("getActiveStocks")
    /\ scriptRun' = StockLoopFrom([scriptRun EXCEPT !.stocks = stocks,
                                                    !.stats.total = Len(stocks)],
                                  0)
    /\ ScriptFrame

\* getActiveStocks throws: the error escapes to the outer catch.
GetActiveStocksThrows ==
    /\ At("getActiveStocks")
    /\ scriptRun' = FatalError(scriptRun)
    /\ ScriptFrame

\* await supabase.logAPIUsage({ response_status, error_message }) is called.
LogAPIUsage(r, response_status, error_message) ==
    [r EXCEPT !.pc = "logAPIUsage",
              !.usage = Some([response_status |-> response_status,
                              error_message |-> error_message])]

\* Faulty variant: a stock of low data quality is passed over uncounted.
FetchEnhancedReturns_SkipUncounted(result) ==
    /\ At("fetchEnhanced")
    /\ scriptRun' =
           IF result.success
           THEN IF result.data_quality_score < MIN_QUALITY_SCORE
                THEN StockLoopFrom(scriptRun, scriptRun.i + 1)
                ELSE [scriptRun EXCEPT !.pc = "saveToDatabase"]
           ELSE LogAPIUsage([scriptRun EXCEPT !.stats.failed = @ + 1],
                            500, "Failed to fetch data")
    /\ ScriptFrame

\* yahoo.fetchEnhanced returns: a stock of low data quality is skipped (the
\* continue also passes over the delay), a good one is scored and saved, a
\* failed fetch is counted and logged.
FetchEnhancedReturns(result) ==
    /\ At("fetchEnhanced")
    /\ scriptRun' =
           IF result.success
           THEN IF result.data_quality_score < MIN_QUALITY_SCORE
                THEN StockLoopFrom([scriptRun EXCEPT !.stats.skipped = @ + 1],
                                   scriptRun.i + 1)
                ELSE [scriptRun EXCEPT !.pc = "saveToDatabase"]
           ELSE LogAPIUsage([scriptRun EXCEPT !.stats.failed = @ + 1],
                            500, "Failed to fetch data")
    /\ ScriptFrame

\* fetchEnhanced rejects or calculateScores throws: the catch of the inner
\* try counts the stock as failed and logs it.
ProcessingThrows ==
    /\ At("fetchEnhanced")
    /\ scriptRun' = LogAPIUsage([scriptRun EXCEPT !.stats.failed = @ + 1],
                                500, "error.message")
    /\ ScriptFrame

\* saveToDatabase returns its SaveResult.
SaveToDatabaseReturns(success) ==
    /\ At("saveToDatabase")
    /\ scriptRun' =
           LogAPIUsage(IF success
                       THEN [scriptRun EXCEPT !.stats.successful = @ + 1]
                       ELSE [scriptRun EXCEPT !.stats.failed = @ + 1],
                       200, "none")
    /\ ScriptFrame

\* logAPIUsage returns; await sleep(200)
LogAPIUsageReturns ==
    /\ At("logAPIUsage")
    /\ scriptRun' = [scriptRun EXCEPT !.pc = "sleep"]
    /\ ScriptFrame

\* sleep(200) ends; i++ and the loop goes on.
ScriptSleepWakes ==
    /\ At("sleep")
    /\ scriptRun' = StockLoopFrom(scriptRun, scriptRun.i + 1)
    /\ ScriptFrame

\* updateETLJob returns, the row updated or, on a database error, as it was;
\* the script prints its summary and returns, or exits after a fatal error.
UpdateETLJobReturns(error) ==
    /\ At("updateETLJob")
    /\ scriptRun' =
           [scriptRun EXCEPT
               !.pc = IF Last(scriptRun.updates).status = "completed"
                      THEN "returned" ELSE "exited",
               !.job = IF error THEN @
                       ELSE Some([status |-> Last(scriptRun.updates).status])]
    /\ ScriptFrame

ScriptNext ==
    \/ FetchAllStocks
    \/ CreateETLJobReturns
    \/ CreateETLJobThrows
    \/ \E stocks \in StockLists : GetActiveStocksReturns(stocks)
    \/ GetActiveStocksThrows
    \/ \E result \in FetchResults : FetchEnhancedReturns(result)
    \/ ProcessingThrows
    \/ \E success \in BOOLEAN : SaveToDatabaseReturns(success)
    \/ LogAPIUsageReturns
    \/ ScriptSleepWakes
    \/ \E error \in BOOLEAN : UpdateETLJobReturns(error)

SpecScript == ScriptInit /\ [][ScriptNext]_vars

\* Every awaited call settles.
SpecScriptFair == SpecScript /\ WF_vars(ScriptNext)

(***************************************************************************)
(* Properties of the technical indicators.                                 *)
(***************************************************************************)
Returned(op) == returned # NoCall /\ returned.op = op

IndicatorNames ==
    {"rsi_14", "macd", "macd_signal", "macd_histogram", "sma_20", "sma_50",
     "sma_200", "ema_20", "ema_50", "bollinger_upper", "bollinger_middle",
     "bollinger_lower", "atr_14", "price_change_1d", "price_change_5d",
     "price_change_20d", "volume_ratio"}

\* The shortest history for which the claim lets the indicator be available.
MinBars(name) ==
    CASE name \in {"rsi_14", "atr_14"} -> 15
      [] name \in {"macd", "macd_signal", "macd_histogram"} -> 35
      [] name \in {"sma_20", "ema_20", "bollinger_upper", "bollinger_middle",
                   "bollinger_lower", "volume_ratio"} -> 20
      [] name \in {"sma_50", "ema_50"} -> 50
      [] name = "sma_200" -> 200
      [] name = "price_change_1d" -> 2
      [] name = "price_change_5d" -> 6
      [] name = "price_change_20d" -> 21

\* Some volume among the last 20 is not zero (volumes are never negative).
MeanVolumeNonZero ==
    \E i \in 1..Len(volumes) : i > Len(volumes) - 20 /\ ~IsZero(volumes[i])

\* C15: calculateAll returns for every history length, with all seventeen
\* indicators, and each indicator is null exactly when the history is
\* shorter than the indicator's own threshold (15 bars for rsi_14 and
\* atr_14, 35 for the MACD triple, 20 for sma_20, ema_20 and the Bollinger
\* bands, 50 for sma_50 and ema_50, 200 for sma_200, 2, 6 and 21 for the
\* price changes); volume_ratio needs 20 bars and a non-zero mean volume.
C15_IndicatorsNullBelowThreshold ==
    Returned("calculateAll") =>
        /\ DOMAIN returned.value = IndicatorNames
        /\ \A name \in IndicatorNames :
              NotNull(returned.value[name]) <=>
                  /\ Len(prices) >= MinBars(name)
                  /\ name = "volume_ratio" => MeanVolumeNonZero

\* 35 bars: the MACD triple has just become available, sma_50 is not yet.
C15_Witness ==
    /\ Returned("calculateAll")
    /\ Len(prices) = 35
    /\ NotNull(returned.value.macd_histogram)
    /\ ~NotNull(returned.value.sma_50)
    /\ NotNull(returned.value.volume_ratio)

\* The close-to-close changes of the last `period` bars, by bar index.
WindowBars(period) == {j \in 2..Len(prices) : j > Len(prices) - period}

Delta(j) == Sub(prices[j], prices[j - 1])

Between(lo, x, hi) == ~Less(x, lo) /\ ~Less(hi, x)

\* C16: a value returned by calculateRSI lies in [0, 100]; it is exactly 100
\* when no change of the trailing window is negative (a flat window
\* included) and exactly 0 when every change of the window is negative.
C16_RsiRangeAndExtremes ==
    (Returned("calculateRSI") /\ NotNull(returned.value)) =>
        LET period == returned.args[1]
            rsi    == Val(returned.value)
        IN  /\ Between(Num(0), rsi, Num(100))
            /\ (\A j \in WindowBars(period) : ~Less(Delta(j), Num(0)))
                  => rsi = Num(100)
            /\ (\A j \in WindowBars(period) : Less(Delta(j), Num(0)))
                  => rsi = Num(0)

\* A flat fourteen-bar window: RSI(14) is 100.
C16_Witness ==
    /\ Returned("calculateRSI")
    /\ returned.args = <<14>>
    /\ \A j \in WindowBars(14) : IsZero(Delta(j))
    /\ returned.value = Some(Num(100))

\* A two-bar window that only falls, after a rise: RSI(2) is 0.
C16_WitnessFalling ==
    /\ Returned("calculateRSI")
    /\ returned.args = <<2>>
    /\ Len(prices) = 4
    /\ Less(Num(0), Delta(2))
    /\ \A j \in WindowBars(2) : Less(Delta(j), Num(0))
    /\ returned.value = Some(Num(0))

\* The sums of the rises and of the falls among the last `period` changes.
WindowGains(period) ==
    Sum([k \in 1..period |->
            LET d == Delta(Len(prices) - period + k)
            IN  IF Less(Num(0), d) THEN d ELSE Num(0)])

WindowLosses(period) ==
    Sum([k \in 1..period |->
            LET d == Delta(Len(prices) - period + k)
            IN  IF Less(d, Num(0)) THEN Abs(d) ELSE Num(0)])

\* The short close series that end with the same period+1 closes as the
\* analyzer's history.
SameTrailingCloses(period) ==
    {cs \in ShortCloses :
        /\ Len(cs) >= period + 1
        /\ \A k \in 0..period :
              Num(cs[Len(cs) - k]) = prices[Len(prices) - k]}

\* C17: calculateRSI(period) depends on the last period+1 closes only: it
\* returns the same value for the window taken alone and for every other
\* series ending with the same period+1 closes, and that value is
\* 100 - 100/(1 + gains/losses) over the last `period` changes (stated for a
\* non-zero sum of losses, where the quotient is defined).
C17_RsiTrailingWindowOnly ==
    (Returned("calculateRSI") /\ Len(prices) >= returned.args[1] + 1) =>
        LET period == returned.args[1]
            gains  == WindowGains(period)
            losses == WindowLosses(period)
        IN  /\ returned.value =
                  calculateRSI(SliceLast(prices, period + 1), period)
            /\ Len(prices) <= MaxBars =>
                  \A cs \in SameTrailingCloses(period) :
                      calculateRSI([i \in 1..Len(cs) |-> Num(cs[i])], period)
                          = returned.value
            /\ ~IsZero(losses) =>
                  returned.value =
                      Some(Sub(Num(100),
                               Over(Num(100), Add(Num(1), Over(gains, losses)))))

\* RSI(2) of four bars: a rise and a fall in the window, another change
\* before it, and some other series sharing the window.
C17_Witness ==
    /\ Returned("calculateRSI")
    /\ returned.args = <<2>>
    /\ Len(prices) = 4
    /\ ~IsZero(Delta(2))
    /\ ~IsZero(WindowGains(2))
    /\ ~IsZero(WindowLosses(2))
    /\ \E cs \in SameTrailingCloses(2) : Num(cs[1]) # prices[1]
    /\ Less(Num(0), Val(returned.value))
    /\ Less(Val(returned.value), Num(100))

\* The number of values of the MACD line for a history of n bars.
MacdLineLength(n, slow) == n - slow + 1

\* C18: when the MACD line exists (length >= slow) but has fewer values than
\* the signal period, calculateMACD reports a non-null macd with a null
\* macd_signal and a null macd_histogram.
C18_MacdAloneWithoutSignal ==
    (/\ Returned("calculateMACD")
     /\ Len(prices) >= returned.args[2]
     /\ MacdLineLength(Len(prices), returned.args[2]) < returned.args[3]) =>
        /\ NotNull(returned.value.macd)
        /\ returned.value.macd_signal = Null
        /\ returned.value.macd_histogram = Null

\* What calculateMACD does instead: below slow + signal bars the first guard
\* returns the all-null triple, so macd is never reported alone.
C18_MacdNullBelowSlowPlusSignal ==
    Returned("calculateMACD") =>
        /\ Len(prices) < returned.args[2] + returned.args[3]
              => returned.value = NoMacd
        /\ Len(prices) >= returned.args[2] + returned.args[3]
              => /\ NotNull(returned.value.macd)
                 /\ NotNull(returned.value.macd_signal)
                 /\ NotNull(returned.value.macd_histogram)

\* 30 bars with the default periods: the MACD line would have 5 values.
C18_FailingInput ==
    /\ Returned("calculateMACD")
    /\ returned.args = <<12, 26, 9>>
    /\ Len(prices) = 30
    /\ returned.value = NoMacd

\* Mean and population variance of the last `period` closes, the variance
\* as the mean of the squares less the square of the mean.
WindowMean(period) == Over(Sum(SliceLast(prices, period)), Num(period))

WindowVariance(period) ==
    LET window  == SliceLast(prices, period)
        squares == [i \in 1..Len(window) |-> Times(window[i], window[i])]
    IN  Sub(Over(Sum(squares), Num(period)),
            Times(WindowMean(period), WindowMean(period)))

\* C19: with at least `period` bars (20 in calculateAll) the Bollinger bands
\* are ordered upper >= middle >= lower, the middle is the mean of the last
\* `period` closes, and the bands lie at the same distance from it:
\* stdDev (2) times the population standard deviation of those closes.
C19_BollingerOrderedAndSymmetric ==
    (Returned("calculateBollingerBands") /\ Len(prices) >= returned.args[1]) =>
        LET period == returned.args[1]
            stdDev == returned.args[2]
            upper  == Val(returned.value.bollinger_upper)
            middle == Val(returned.value.bollinger_middle)
            lower  == Val(returned.value.bollinger_lower)
            spread == Times(Num(stdDev), Sqrt(WindowVariance(period)))
        IN  /\ ~Less(upper, middle)
            /\ ~Less(middle, lower)
            /\ middle = WindowMean(period)
            /\ Sub(upper, middle) = spread
            /\ Sub(middle, lower) = spread

\* Twenty-one bars whose last twenty closes are not all equal, periods 20, 2.
C19_Witness ==
    /\ Returned("calculateBollingerBands")
    /\ returned.args = <<20, 2>>
    /\ Len(prices) = 21
    /\ prices[1] # prices[21]
    /\ ~IsZero(WindowVariance(20))
    /\ Less(Val(returned.value.bollinger_lower),
            Val(returned.value.bollinger_middle))
    /\ Less(Val(returned.value.bollinger_middle),
            Val(returned.value.bollinger_upper))

\* C20: with at least period+1 bars calculateATR returns a value >= 0
\* whatever the highs, lows and closes are, a high below its low included,
\* because every true range is >= 0.
C20_AtrNonNegative ==
    (Returned("calculateATR") /\ Len(prices) >= returned.args[1] + 1) =>
        /\ NotNull(returned.value)
        /\ ~Less(Val(returned.value), Num(0))
        /\ \A i \in 1..(Len(prices) - 1) :
              ~Less(TrueRange(prices, highs, lows, i), Num(0))

\* ATR(2) of three falling bars whose highs lie below their lows.
C20_Witness ==
    /\ Returned("calculateATR")
    /\ returned.args = <<2>>
    /\ Len(prices) = 3
    /\ \A i \in 1..3 : Less(highs[i], lows[i])
    /\ Less(prices[3], prices[2]) /\ Less(prices[2], prices[1])
    /\ Less(Num(0), Val(returned.value))

\* The analyzer holds n bars, each with high = low = close = 100 and volume
\* 1000.
HoldsFlatScenario(n) ==
    /\ Len(prices) = n
    /\ \A i \in 1..n :
          /\ prices[i] = Num(100)
          /\ highs[i] = Num(100)
          /\ lows[i] = Num(100)
          /\ volumes[i] = Num(1000)

\* C21: for 25 flat bars (high = low = close = 100, volume 1000) calculateAll
\* returns sma_20 = ema_20 = 100, the three Bollinger bands = 100,
\* atr_14 = 0, rsi_14 = 100, volume_ratio = 1 and the three price changes
\* = 0, with the MACD triple, sma_50, ema_50 and sma_200 null.
C21_FlatScenarioIndicators ==
    (Returned("calculateAll") /\ HoldsFlatScenario(25)) =>
        LET v == returned.value
        IN  /\ v.sma_20 = Some(Num(100))
            /\ v.ema_20 = Some(Num(100))
            /\ v.bollinger_upper = Some(Num(100))
            /\ v.bollinger_middle = Some(Num(100))
            /\ v.bollinger_lower = Some(Num(100))
            /\ v.atr_14 = Some(Num(0))
            /\ v.rsi_14 = Some(Num(100))
            /\ v.volume_ratio = Some(Num(1))
            /\ v.price_change_1d = Some(Num(0))
            /\ v.price_change_5d = Some(Num(0))
            /\ v.price_change_20d = Some(Num(0))
            /\ v.macd = Null
            /\ v.macd_signal = Null
            /\ v.macd_histogram = Null
            /\ v.sma_50 = Null
            /\ v.ema_50 = Null
            /\ v.sma_200 = Null

C21_Witness ==
    /\ Returned("calculateAll")
    /\ HoldsFlatScenario(25)
    /\ returned.value.atr_14 = Some(Num(0))
    /\ returned.value.volume_ratio = Some(Num(1))

\* The sum of the last `period` volumes.
WindowVolume(period) == Sum(SliceLast(volumes, period))

\* C22: getVolumeRatio(period) returns null when the history is shorter than
\* `period` or the mean of the last `period` volumes is 0, and otherwise the
\* last volume divided by that mean; no division by zero is ever evaluated.
C22_VolumeRatioGuarded ==
    Returned("getVolumeRatio") =>
        LET period == returned.args[1]
        IN  IF Len(volumes) < period \/ IsZero(WindowVolume(period))
            THEN returned.value = Null
            ELSE returned.value =
                     Some(Over(Times(Last(volumes), Num(period)),
                               WindowVolume(period)))

\* Three bars without any volume: the ratio over 3 bars is unavailable.
C22_Witness ==
    /\ Returned("getVolumeRatio")
    /\ returned.args = <<3>>
    /\ Len(volumes) = 3
    /\ \A i \in 1..3 : IsZero(volumes[i])
    /\ returned.value = Null

\* Volumes 0, 1, 2: the ratio over 3 bars is 2.
C22_WitnessRatio ==
    /\ Returned("getVolumeRatio")
    /\ returned.args = <<3>>
    /\ volumes = <<Num(0), Num(1), Num(2)>>
    /\ returned.value = Some(Num(2))

WaitsBeforeAttempts(p) == 1..(callers[p].attempt - 1)

\* C24: after rate-limit errors fetchWithRetry backs off exponentially: the
\* wait before each further attempt is at least double the wait before the
\* attempt preceding it.
C24_BackoffAtLeastDoubles ==
    mode = "client" =>
        \A p \in Callers :
            \A i \in WaitsBeforeAttempts(p) :
                i > 1 => callers[p].waits[i] >= 2 * callers[p].waits[i - 1]

\* What fetchWithRetry does instead: the i-th wait is i times 5000 ms, so
\* the waits grow by a constant 5000 ms.
C24_WaitsGrowLinearly ==
    mode = "client" =>
        \A p \in Callers :
            \A i \in 1..Len(callers[p].waits) :
                callers[p].waits[i] = i * 5000

\* With the default of MAX_RETRIES attempts only the waits of 5000 and
\* 10000 ms precede an attempt, and the second is double the first.
C24_DefaultWaitsDouble ==
    mode = "client" =>
        \A p \in Callers :
            callers[p].maxRetries = MAX_RETRIES =>
                \A i \in WaitsBeforeAttempts(p) :
                    i > 1 => callers[p].waits[i] >= 2 * callers[p].waits[i - 1]

\* maxRetries = 4 and three rate-limit errors: the fourth attempt begins
\* after waits of 5000, 10000 and 15000 ms.
C24_FailingInput ==
    /\ mode = "client"
    /\ \E p \in Callers :
          /\ callers[p].maxRetries = 4
          /\ callers[p].attempt = 4
          /\ callers[p].pc = "operation"
          /\ callers[p].waits = <<5000, 10000, 15000>>

\* The times at which remote operations began on the client, by caller and
\* attempt.
Begun ==
    {b \in Callers \X (1..MaxAttempts) : b[2] <= Len(callers[b[1]].began)}

BeganAt(b) == callers[b[1]].began[b[2]]

\* C25: on one client any two remote operations started after rateLimit()
\* begin at least REQUEST_DELAY_MS apart, however the concurrent callers
\* interleave.
C25_OperationsSpacedByDelay ==
    mode = "client" =>
        \A a \in Begun, b \in Begun :
            a # b =>
                \/ BeganAt(a) - BeganAt(b) >= REQUEST_DELAY_MS
                \/ BeganAt(b) - BeganAt(a) >= REQUEST_DELAY_MS

\* Two callers enter rateLimit 100 ms after the last request: both read the
\* same lastRequestTime, both sleep 100 ms, and both operations begin at the
\* same instant.
C25_FailingInput ==
    /\ mode = "client"
    /\ callers[1].began = <<1100>>
    /\ callers[2].began = <<1100>>

\* What caller p's call has done so far is what fetchWithRetry allows.
RetryDiscipline(p) ==
    LET c == callers[p]
        n == Len(c.settled)
    IN  /\ Len(c.began) <= c.maxRetries
        /\ \A i \in 1..n :
              i < n => c.settled[i] = "rate limit"
        /\ (n > 0 /\ c.settled[n] = "returned")
              => c.pc = "done" /\ c.result = "value" /\ Len(c.began) = n
        /\ (n > 0 /\ c.settled[n] = "error")
              => c.pc = "done" /\ c.result = "null" /\ Len(c.began) = n
        /\ c.result = "value" => (n > 0 /\ c.settled[n] = "returned")
        /\ (c.result = "null" /\ n > 0 /\ c.settled[n] = "rate limit")
              => n = c.maxRetries
        /\ c.pc = "done" <=> c.result # "pending"

\* C28: fetchWithRetry terminates and invokes the operation at most
\* maxRetries times: it returns the value of the first attempt that does not
\* throw, returns null with no further attempt on the first error that is
\* not a rate-limit error, and returns null after the maxRetries-th
\* consecutive rate-limit error; every call that was made returns.
C28_RetryBoundedAndTerminates ==
    /\ [](mode = "client" => \A p \in Callers : RetryDiscipline(p))
    /\ \A p \in Callers :
          (mode = "client" /\ callers[p].pc # "idle")
              ~> (callers[p].pc = "done")

\* Three rate-limit errors with maxRetries = 3: null after three invocations.
C28_Witness ==
    /\ mode = "client"
    /\ \E p \in Callers :
          /\ callers[p].maxRetries = 3
          /\ callers[p].settled = <<"rate limit", "rate limit", "rate limit">>
          /\ Len(callers[p].began) = 3
          /\ callers[p].result = "null"

(***************************************************************************)
(* Properties of the cache.                                                *)
(***************************************************************************)
\* The latest get was of the key of the latest set, and since that set only
\* get calls were made, time passed and managers were created.
GotAfterSet ==
    /\ mode = "cache"
    /\ NotNull(cacheLog.lastSet)
    /\ cacheLog.onlyGetsSince
    /\ NotNull(cacheLog.got)
    /\ Val(cacheLog.got).key = Val(cacheLog.lastSet).key

\* The entry is gone from the memory map and from the file store.
Forgotten(key) ==
    /\ memoryCache[key] = Null
    /\ files[getCachePath(key)] = Null

\* C26: after set(k, v, ttl), get(k) returns v at every time strictly before
\* the expiry instant, from memory or from the file, and null at or after
\* it; once a get has found the entry expired it is in neither the memory
\* map nor the file store.
C26_GetReturnsValueUntilExpiry ==
    GotAfterSet =>
        LET entry == Val(cacheLog.lastSet).entry
            got   == Val(cacheLog.got)
        IN  IF got.at < entry.expiresAt
            THEN got.result = Some(entry.data)
            ELSE got.result = Null /\ Forgotten(got.key)

\* What get does: before the expiry instant it returns v from the memory of
\* the manager that stored it, and the JSON round trip of v once the entry
\* is read from the file; the expiry part is as claimed.
C26_GetReturnsJsonOfValue ==
    GotAfterSet =>
        LET entry == Val(cacheLog.lastSet).entry
            got   == Val(cacheLog.got)
        IN  IF got.at < entry.expiresAt
            THEN got.result \in {Some(entry.data),
                                 Some(JsonRoundTrip(entry.data))}
            ELSE got.result = Null /\ Forgotten(got.key)

\* Price bars are stored, a new manager reads them back from the file before
\* they expire: the dates come back as strings.
C26_FailingInput ==
    /\ GotAfterSet
    /\ Val(cacheLog.lastSet).entry.data.date = "Date"
    /\ Val(cacheLog.got).at < Val(cacheLog.lastSet).entry.expiresAt
    /\ NotNull(Val(cacheLog.got).result)
    /\ Val(Val(cacheLog.got).result).date = "string"

\* A get at the expiry instant returns null and removes the entry.
C26_ExpiredGet ==
    /\ GotAfterSet
    /\ Val(cacheLog.got).at = Val(cacheLog.lastSet).entry.expiresAt
    /\ Val(cacheLog.got).result = Null
    /\ Forgotten(Val(cacheLog.got).key)

\* ---------------------------------------------------------------------------
\* C29  Keys are isolated: after any sequence of set, get, delete and clear
\* calls on a manager, a get of key k that returns data returns the data most
\* recently stored under k itself (as JSON gives it back), never data stored
\* under another key, also when the keys differ only in characters outside
\* [a-zA-Z0-9_-].
\* ---------------------------------------------------------------------------
SameJson(a, b) == JsonRoundTrip(a) = JsonRoundTrip(b)

GotData == /\ mode = "cache"
           /\ NotNull(cacheLog.got)
           /\ NotNull(Val(cacheLog.got).result)

C29_KeysIsolated ==
    (GotData /\ cacheLog.oneManager) =>
        LET got == Val(cacheLog.got)
        IN  /\ NotNull(cacheLog.stored[got.key])
            /\ SameJson(Val(got.result), Val(cacheLog.stored[got.key]))

\* set("a.b", v1, 1), set("a_b", v2, 2), one second passes, get("a.b"): the
\* memory entry of "a.b" has expired and the file a_b.json holds v2.
C29_FailingInput ==
    /\ GotData
    /\ cacheLog.oneManager
    /\ Val(cacheLog.got).key = <<"a", ".", "b">>
    /\ NotNull(cacheLog.stored[<<"a", ".", "b">>])
    /\ NotNull(cacheLog.stored[<<"a", "_", "b">>])
    /\ ~SameJson(Val(Val(cacheLog.got).result),
                 Val(cacheLog.stored[<<"a", ".", "b">>]))
    /\ SameJson(Val(Val(cacheLog.got).result),
                Val(cacheLog.stored[<<"a", "_", "b">>]))

\* A key whose cache path no other key shares is isolated, whatever was
\* called, new managers and cleanupExpired included.
C29_KeyWithOwnPathIsolated ==
    (GotData /\ \A k \in Keys \ {Val(cacheLog.got).key} :
                    getCachePath(k) # getCachePath(Val(cacheLog.got).key)) =>
        LET got == Val(cacheLog.got)
        IN  /\ NotNull(cacheLog.stored[got.key])
            /\ SameJson(Val(got.result), Val(cacheLog.stored[got.key]))

C29_OwnPathWitness ==
    /\ GotData
    /\ Val(cacheLog.got).key = <<"c">>
    /\ ~cacheLog.oneManager
    /\ Val(Val(cacheLog.got).result).date = "string"

\* ---------------------------------------------------------------------------
\* C27  batchFetch works in consecutive batches of at most `concurrency`
\* symbols: a fetchEnhanced call of a later batch exists only when every call
\* of the earlier batches has settled, at most `concurrency` calls are in
\* flight at any time, and the returned list has exactly one result per input
\* symbol, in input order.
\* ---------------------------------------------------------------------------
BatchCalled == mode = "batch" /\ batchCall.pc # "idle"

CallsMade == 1..Len(batchCall.calls)

InFlight == {n \in CallsMade : batchCall.calls[n].state = "inFlight"}

CallsOfBatch(i) == {n \in CallsMade : batchCall.calls[n].batch = i}

C27_BatchesBoundConcurrency ==
    BatchCalled =>
        /\ \A n \in CallsMade :
               /\ batchCall.calls[n].at = n
               /\ batchCall.calls[n].symbol = batchCall.symbols[n]
               /\ Cardinality(CallsOfBatch(batchCall.calls[n].batch))
                      <= batchCall.concurrency
        /\ \A n, m \in CallsMade :
               batchCall.calls[n].batch < batchCall.calls[m].batch =>
                   batchCall.calls[n].state = "settled"
        /\ Cardinality(InFlight) <= batchCall.concurrency
        /\ batchCall.pc = "returned" =>
               /\ Len(batchCall.results) = Len(batchCall.symbols)
               /\ \A j \in 1..Len(batchCall.symbols) :
                      batchCall.results[j].symbol = batchCall.symbols[j]

\* Four symbols, one of them twice, fetched two at a time and returned; the
\* fetch of the second symbol failed.
C27_Witness ==
    /\ BatchCalled
    /\ batchCall.pc = "returned"
    /\ batchCall.symbols = <<"A", "B", "C", "A">>
    /\ batchCall.concurrency = 2
    /\ batchCall.completed = 4
    /\ ~batchCall.results[2].success
    /\ batchCall.results[1].success

\* Two calls of a batch in flight while the batch before it has settled.
C27_WitnessInFlight ==
    /\ BatchCalled
    /\ batchCall.i > 0
    /\ Cardinality(InFlight) = batchCall.concurrency
    /\ batchCall.concurrency = 2

\* ---------------------------------------------------------------------------
\* C30  Every run of fetchAllStocks that created its ETL job in status
\* 'running' eventually issues exactly one terminal status update for the
\* job: 'completed', with records_processed the successful count, when the
\* loop over the stocks ran to its end, 'failed' when an error escaped to the
\* outer catch; never both.  When the loop has ended, successful + failed +
\* skipped is the number of active stocks.
\* ---------------------------------------------------------------------------
JobCreated == mode = "script" /\ scriptRun.pc # "idle" /\ NotNull(scriptRun.job)

Counted3(stats) == stats.successful + stats.failed + stats.skipped

OneTerminalUpdate ==
    /\ Len(scriptRun.updates) = 1
    /\ scriptRun.path # "none"
    /\ scriptRun.path = "loop ended" =>
           /\ scriptRun.updates[1].status = "completed"
           /\ scriptRun.updates[1].records_processed = scriptRun.stats.successful
           /\ Counted3(scriptRun.stats) = Len(scriptRun.stocks)
    /\ scriptRun.path = "error escaped" =>
           scriptRun.updates[1].status = "failed"

C30_OneTerminalUpdate ==
    /\ [](JobCreated =>
             /\ Len(scriptRun.updates) <= 1
             /\ Len(scriptRun.updates) = 1 => OneTerminalUpdate
             /\ scriptRun.path = "none" => Len(scriptRun.updates) = 0)
    /\ (JobCreated ~> (/\ JobCreated
                        /\ OneTerminalUpdate
                        /\ scriptRun.pc \in {"returned", "exited"}))

\* Three stocks: one saved, one skipped for low quality, one failed; the job
\* was updated as completed with one record processed.
C30_Witness ==
    /\ JobCreated
    /\ scriptRun.pc = "returned"
    /\ Len(scriptRun.stocks) = 3
    /\ scriptRun.stats = [total |-> 3, successful |-> 1, failed |-> 1,
                          skipped |-> 1]
    /\ scriptRun.updates = <<[status |-> "completed", records_processed |-> 1]>>

C30_WitnessFailed ==
    /\ JobCreated
    /\ scriptRun.pc = "exited"
    /\ scriptRun.updates = <<[status |-> "failed"]>>

=============================================================================
